---- MODULE Spec2Model ----
(***************************************************************************)
(* Ingest and fan-out engine of the diagnostic collector: the agent        *)
(* message router (internal/tunnel/handler.go) with its file-snapshot,     *)
(* packet and log pipelines, the subscriber gateway (websocket handler)    *)
(* and the process lifecycle (api.Server.Run, tunnel.Server).              *)
(***************************************************************************)
EXTENDS Integers, Sequences, FiniteSets, TLC

\* ------------------------------------------------------------------ bounds

\* longest log_list payload (number of FileNode elements) the agent sends
MaxSnapLen == 2

\* ------------------------------------------------------------- data model

\* models.FileNode.Path values the agent reports
Paths == {"/a", "/b"}

\* A models.FileNode: the record the agent first reports for path p.
BaseNode(p) ==
    [Path |-> p, ParentPath |-> "/", Name |-> "n", IsDirectory |-> FALSE,
     Size |-> 10, ModTime |-> 1, IsGzipped |-> FALSE, IsScraped |-> FALSE]

\* The records of path p: the base record and one per single changed field.
NodeVariants(p) ==
    { BaseNode(p),
      [BaseNode(p) EXCEPT !.ModTime = 2],
      [BaseNode(p) EXCEPT !.Size = 20],
      [BaseNode(p) EXCEPT !.IsDirectory = TRUE],
      [BaseNode(p) EXCEPT !.IsGzipped = TRUE],
      [BaseNode(p) EXCEPT !.IsScraped = TRUE],
      [BaseNode(p) EXCEPT !.Name = "m"],
      [BaseNode(p) EXCEPT !.ParentPath = "/p"] }

FileNodes == UNION { NodeVariants(p) : p \in Paths }

\* The records the stateful file pipeline is driven with: for /a the base
\* record, a material change (Size) and a non-material change (IsScraped); for
\* /b the base record.
SnapNodes ==
    { BaseNode("/a"), [BaseNode("/a") EXCEPT !.Size = 20],
      [BaseNode("/a") EXCEPT !.IsScraped = TRUE], BaseNode("/b") }

\* The records the mirror holds when a diff is computed on its own.
DiffNodes ==
    SnapNodes \cup { [BaseNode("/b") EXCEPT !.IsGzipped = TRUE] }

\* All payloads of at most n elements over the records in nodes.
SnapshotsOf(nodes, n) == UNION { [1..k -> nodes] : k \in 0..n }

\* ------------------------------------------------------- Go maps and slices

\* map[string]models.FileNode as a function on the set of its keys
EmptyMap == [p \in {} |-> BaseNode(p)]

MapSet(m, k, v) == [p \in (DOMAIN m) \cup {k} |-> IF p = k THEN v ELSE m[p]]

MapDelete(m, k) == [p \in (DOMAIN m) \ {k} |-> m[p]]

\* The orders in which `range` may visit the key set keys of a map.
RangeOrders(keys) ==
    { o \in [1..Cardinality(keys) -> keys] :
        \A i, j \in 1..Cardinality(keys) : i # j => o[i] # o[j] }

\* The elements of a slice, as a set.
Elems(s) == { s[i] : i \in 1..Len(s) }

\* The paths of a slice of FileNode, in slice order.
PathsOf(s) == [i \in 1..Len(s) |-> s[i].Path]

\* ---------------------------------------------------------- file diff engine

\* fileChanges with its three empty slices (detectFileChanges, lines 170-174)
NoChanges == [added |-> <<>>, updated |-> <<>>, deleted |-> <<>>]

\* handleFileList without its early return on an empty diff is.
isEmpty_Never(fc) == FALSE

isEmpty(fc) == Len(fc.added) = 0 /\ Len(fc.updated) = 0 /\ Len(fc.deleted) = 0

isFileChanged_NoGzip(a, b) ==
    a.ModTime # b.ModTime \/ a.Size # b.Size \/ a.IsDirectory # b.IsDirectory

isFileChanged(a, b) ==
    a.ModTime # b.ModTime \/ a.Size # b.Size \/
    a.IsDirectory # b.IsDirectory \/ a.IsGzipped # b.IsGzipped

\* newFileMap after the loop of lines 177-180: a later element of the payload
\* overwrites an earlier one with the same path.
RECURSIVE BuildFileMap(_)
BuildFileMap(newFiles) ==
    IF newFiles = <<>> THEN EmptyMap
    ELSE LET n == Len(newFiles)
             file == newFiles[n]
         IN MapSet(BuildFileMap(SubSeq(newFiles, 1, n - 1)), file.Path, file)

\* One iteration of the loop over the mirror (lines 184-193): st holds
\* newFileMap (nm) and the changes so far (ch).
WalkStep_KeepEntry(cache, st, path) ==
    IF path \in DOMAIN st.nm
    THEN [nm |-> st.nm,
          ch |-> IF isFileChanged(cache[path], st.nm[path])
                 THEN [st.ch EXCEPT !.updated = Append(@, st.nm[path])]
                 ELSE st.ch]
    ELSE [nm |-> st.nm, ch |-> [st.ch EXCEPT !.deleted = Append(@, path)]]

WalkStep(cache, st, path) ==
    IF path \in DOMAIN st.nm
    THEN [nm |-> MapDelete(st.nm, path),
          ch |-> IF isFileChanged(cache[path], st.nm[path])
                 THEN [st.ch EXCEPT !.updated = Append(@, st.nm[path])]
                 ELSE st.ch]
    ELSE [nm |-> st.nm, ch |-> [st.ch EXCEPT !.deleted = Append(@, path)]]

\* The loop over the mirror, visiting its paths in the order `order`.
RECURSIVE WalkCache(_, _, _)
WalkCache(cache, st, order) ==
    IF order = <<>> THEN st
    ELSE WalkCache(cache, WalkStep(cache, st, Head(order)), Tail(order))

\* The loop of lines 197-199 over what is left of newFileMap.
RECURSIVE AppendRemaining(_, _, _)
AppendRemaining(nm, added, order) ==
    IF order = <<>> THEN added
    ELSE AppendRemaining(nm, Append(added, nm[Head(order)]), Tail(order))

\* newFileMap and the changes after the loop over the mirror.
WalkResult(cache, newFiles, cacheOrder) ==
    WalkCache(cache, [nm |-> BuildFileMap(newFiles), ch |-> NoChanges], cacheOrder)

\* Handler.detectFileChanges: cacheOrder and addOrder are the orders in which
\* the two `range` loops visit their maps.
detectFileChanges(cache, newFiles, cacheOrder, addOrder) ==
    LET w == WalkResult(cache, newFiles, cacheOrder)
    IN [w.ch EXCEPT !.added = AppendRemaining(w.nm, <<>>, addOrder)]

\* Storage adapter, files table (internal/db/operations.go): each call is one
\* statement or one batch, applied whole or not at all.
DeleteFiles(db, paths) == [p \in (DOMAIN db) \ Elems(paths) |-> db[p]]

\* INSERT ... ON CONFLICT (path) DO UPDATE of every record of files.
RECURSIVE SaveFiles(_, _)
SaveFiles(db, files) ==
    IF files = <<>> THEN db
    ELSE SaveFiles(MapSet(db, Head(files).Path, Head(files)), Tail(files))

\* UPDATE ... WHERE path = $1 for every record of files: no row, no change.
RECURSIVE UpdateFiles(_, _)
UpdateFiles(db, files) ==
    IF files = <<>> THEN db
    ELSE UpdateFiles(IF Head(files).Path \in DOMAIN db
                     THEN MapSet(db, Head(files).Path, Head(files)) ELSE db,
                     Tail(files))

\* Handler.updateFileCache: deletions, then additions and updates.
updateFileCache_NoDelete(cache, ch) == SaveFiles(cache, ch.added \o ch.updated)

updateFileCache(cache, ch) ==
    SaveFiles(DeleteFiles(cache, ch.deleted), ch.added \o ch.updated)

\* A non-blocking send on a buffered channel of capacity cap
\* (select { case ch <- x: default: }): dropped when the buffer is full.
SendReady_Blocking(ch, cap) == Len(ch) < cap

\* A send in a select with a default case never waits for room in the channel.
SendReady(ch, cap) == TRUE

\* A send that always finds room in the channel is.
Offer_Unbounded(ch, cap, x) == Append(ch, x)

Offer(ch, cap, x) == IF Len(ch) < cap THEN Append(ch, x) ELSE ch

\* The record a payload carries for path p: its last element with that path.
LastRecord(payload, p) ==
    LET last == CHOOSE i \in 1..Len(payload) :
                  /\ payload[i].Path = p
                  /\ \A j \in (i + 1)..Len(payload) : payload[j].Path # p
    IN payload[last]

\* The records a payload carries, by path.
LastRecords(payload) ==
    [p \in Elems(PathsOf(payload)) |-> LastRecord(payload, p)]

\* ------------------------------------------------------------------- state

\* agent connections the listener may accept
Conns == {1, 2}

\* the goroutine of periodicNetworkFlush
Ticker == 0

\* the goroutine that calls Handler.Close
Closer == 3

\* the goroutines that run handler code: one reader per connection, the
\* ticker, the caller of Close
Tasks == Conns \cup {Ticker, Closer}

\* cfg.BatchSize (default 1000), scaled down
BatchSize == 2

\* cfg.NetworkBufferSize, the capacity of networkStreamCh (default 50000),
\* scaled down
NetworkCap == 1

\* cfg.LogBufferSize, the capacity of logStreamCh (default 10000), scaled down
LogCap == 1

\* subscriber sessions the HTTP server may accept
Sessions == {1, 2}

\* the types of the data frames a session is sent
FrameTypes == {"network", "log", "file_update"}

\* the file a session views before its first view_file frame: the zero value
\* a lookup in h.viewers gives for a connection without an entry
NoFile == ""

\* The control frames a client sends, as readPump sees them: the type, the
\* JSON kind of the payload (absent when the frame has none) and, for a
\* string, its text.
ControlTypes == {"view_file", "speed_control", "other"}

PayloadKinds == {"string", "number", "null", "object", "absent"}

ControlFrames ==
    { f \in [Type : ControlTypes, Kind : PayloadKinds, Text : {"/a", ""}] :
        f.Kind # "string" => f.Text = "" }

\* msg before the first frame is read
NoMsg == [Type |-> "", Kind |-> "absent", Text |-> ""]

\* json.Unmarshal of a payload into a Go string: a JSON string is stored, a
\* JSON null is accepted and leaves the string as it is (empty), anything
\* else, an absent payload included, is an error.
UnmarshalString(f) ==
    [err |-> f.Kind \notin {"string", "null"},
     val |-> IF f.Kind = "string" THEN f.Text ELSE ""]

\* packets the agents send in one behaviour, numbered in order of arrival
MaxPackets == 4

\* most packets in one metrics envelope
MaxEnvelope == 2

\* packets sent in a behaviour of the fan-out specification
FanoutPackets == 2

\* log_data envelopes in a behaviour of the fan-out specification
FanoutLogCalls == 1

\* packets sent in a behaviour of the ingest specification
IngestPackets == 2

\* log_data envelopes in a behaviour of the ingest specification
IngestLogCalls == 1

\* packets sent in a behaviour of the shutdown specification
ShutdownPackets == 2

\* most entries in one log_data envelope
MaxLogLen == 2

\* line numbers of log entries
MaxLineNum == 2

\* models.LogEntry.Filename values: a path, or the empty string an entry
\* without a filename decodes to
LogFilenames == Paths \cup {""}

\* models.LogEntry, by the fields that tell two entries apart here
LogEntries == [Filename : LogFilenames, LineNum : 1..MaxLineNum]

\* the payloads of log_data envelopes: lists of entries
LogPayloads == UNION { [1..n -> LogEntries] : n \in 0..MaxLogLen }

\* capacity of fileUpdateCh (2000 in NewHandler), scaled down
FileUpdateCap == 1

\* log_data envelopes in a behaviour of the sessions specification
SessionLogCalls == 2

VARIABLES
    pc,             \* per task: where it is (a reader in HandleConnection,
                    \* the ticker in periodicNetworkFlush)
    fileCache,      \* h.fileCache.files, the file mirror
    dbFiles,        \* the files table of the storage backend
    fileUpdateCh,   \* h.fileUpdateCh
    changes,        \* per connection: the fileChanges of the handleFileList it runs
    newFiles,       \* per connection: the payload handleFileList is working on
    snap,           \* per connection: the record its last log_list payload
                    \* carried for each path (the last one listed)
    pending,        \* per connection: records notifyFileChanges has yet to offer
    flResult,       \* per connection: outcome of its last handleFileList
    fileReplay,     \* per connection: its last log_list repeated the one before,
                    \* which had returned nil
    storageFailed,  \* a files-table call has failed since startup
    fileDropped,    \* a send on fileUpdateCh has found it full
    networkBatch,   \* h.networkBatch, the packet buffer
    networkStreamCh, \* h.networkStreamCh
    batch,          \* per task: the batch its flushNetworkBatch swapped out
    pktCalls,       \* the SaveNetworkPackets calls made so far, with outcome
                    \* and calling task
    nextPkt,        \* number of the next packet to arrive
    pktDropped,     \* a send on networkStreamCh has found it full
    logStreamCh,    \* h.logStreamCh
    logCalls,       \* the SaveLogs calls made so far, with outcome
    logDropped,     \* a send on logStreamCh has found it full
    ws,             \* per session: where its writePump is
    rp,             \* per session: where its readPump is
    viewers,        \* websocket Handler.viewers: session -> viewed file
    sent,           \* per session and frame type: the payloads of the data
                    \* frames written to it so far
    ctxDone,        \* the root context of main is cancelled
    atCancel,       \* the packet buffer at the moment of cancellation
    apiRun,         \* where api.Server.Run is; main returns when it does
    srvRun,         \* where tunnel.Server.Run is
    srvErr,         \* the error Run hands to shutdown and returns: that of
                    \* the context or the one taken from acceptErrors
    srvDrain,       \* how the wait of shutdown ended: all connections done,
                    \* or the 10-second timer
    acceptErrors,   \* an error is waiting in the acceptErrors channel
    srvShutdownCh,  \* Server.shutdownCh is closed
    listenerOpen,   \* the ingest listener has not been closed
    acceptLoop,     \* where Server.acceptLoop is
    connOpen,       \* per connection: its socket has not been closed here
    connections,    \* Server.connections, the tracked connections
    activeConns,    \* the counter of the wait group Server.activeConns
    hShutdownCh,    \* Handler.shutdownCh is closed
    initPc,         \* where the goroutine of initializeFileCache is
    initFiles,      \* the rows its GetAllFiles call returned
    msg,            \* per session: the control frame readPump read last
    rejected,       \* per connection: why processMessage last returned an
                    \* error before any handler acted
    closedChs,      \* the fan-out channels Handler.Close has closed
    panicked,       \* a goroutine has sent on a closed channel
    getLogsCalls    \* the GetLogs calls api.Handler.GetLogs has made on the
                    \* storage, each with the request it served

fileVars == <<fileCache, dbFiles, fileUpdateCh, changes, newFiles, snap,
              pending, flResult, fileReplay, storageFailed, fileDropped>>

pktVars == <<networkBatch, networkStreamCh, batch, pktCalls, nextPkt, pktDropped>>

logVars == <<logStreamCh, logCalls, logDropped>>

wsVars == <<ws, rp, viewers, sent>>

lifeVars == <<ctxDone, atCancel, apiRun, srvRun, srvErr, srvDrain, acceptErrors,
              srvShutdownCh, listenerOpen, acceptLoop, connOpen, connections,
              activeConns, hShutdownCh>>

loadVars == <<initPc, initFiles>>

otherVars == <<msg, rejected, closedChs, panicked, getLogsCalls>>

nonFileVars == <<pktVars, lifeVars, logVars, wsVars, loadVars, otherVars>>

nonPktVars == <<fileVars, lifeVars, logVars, wsVars, loadVars, otherVars>>

nonLifeVars == <<fileVars, pktVars, logVars, wsVars, loadVars, otherVars>>

nonLogVars == <<fileVars, pktVars, lifeVars, wsVars, loadVars, otherVars>>

nonWsVars == <<pc, fileVars, pktVars, logVars, lifeVars, loadVars, otherVars>>

vars == <<pc, fileVars, nonFileVars>>

\* The process is alive: main has not returned from api.Server.Run.
Running == apiRun # "returned"

\* Where a task is after its handler returns. A reader is back at the select
\* of HandleConnection, which returns on a cancelled context or a closed
\* h.shutdownCh and else blocks in Decode; the ticker waits for its next tick.
Resume(t) ==
    IF t = Ticker THEN "tick_wait"
    ELSE IF t = Closer THEN "hc_close"
    ELSE IF ctxDone \/ hShutdownCh THEN "closing" ELSE "decode"

\* The sessions whose writePump is running.
Live == { s \in Sessions : ws[s] = "live" }

\* What a channel carries: the value sent, with the sessions live at the
\* moment of the send noted on it.
Event(x) == [v |-> x, live |-> Live]

\* A reader that hands each envelope to a goroutine of its own, and decodes
\* the next one while a handler is still at work, is.
Decodes_Pipelined(c) ==
    /\ Running
    /\ pc[c] \in {"decode", "fl_delete", "fl_save", "fl_update", "fl_cache",
                  "fl_notify", "ld_offer", "nb_swap", "nb_save", "nb_offer"}

\* Decode returns the next envelope of connection c. An envelope the decoder
\* has buffered is still returned after the socket was closed.
Decodes(c) == Running /\ pc[c] = "decode"

\* Why processMessage returns an error before a handler has acted: the type
\* of the envelope is none of the three, or json.Unmarshal rejects the
\* payload at the top of the handler.
RejectKinds == {"unknown type", "unmarshal"}

\* HandleConnection returning, with the socket closed and the connection
\* untracked, when processMessage returns an error is.
PM_Error_EndsReader(c, kind) ==
    /\ Decodes(c)
    /\ rejected' = [rejected EXCEPT ![c] = kind]
    /\ pc' = [pc EXCEPT ![c] = "exited"]
    /\ connOpen' = [connOpen EXCEPT ![c] = FALSE]
    /\ connections' = connections \ {c}
    /\ activeConns' = IF c \in connections THEN activeConns - 1 ELSE activeConns
    /\ UNCHANGED <<ctxDone, atCancel, apiRun, srvRun, acceptErrors, srvShutdownCh,
                   listenerOpen, acceptLoop, hShutdownCh, srvErr, srvDrain>>
    /\ UNCHANGED <<fileVars, pktVars, logVars, wsVars, loadVars>>
    /\ UNCHANGED <<msg, closedChs, panicked, getLogsCalls>>

\* The reader of connection c decodes an envelope that processMessage
\* rejects, at line 113 for its type or in a handler at line 146, 266 or 285
\* for its payload; HandleConnection, lines 96-98, logs the error and goes
\* round its loop.
PM_Error(c, kind) ==
    /\ Decodes(c)
    /\ rejected' = [rejected EXCEPT ![c] = kind]
    /\ pc' = [pc EXCEPT ![c] = Resume(c)]
    /\ UNCHANGED <<fileVars, pktVars, lifeVars, logVars, wsVars, loadVars>>
    /\ UNCHANGED <<msg, closedChs, panicked, getLogsCalls>>

\* ------------------------------------------------------------ file pipeline

\* applyFileChanges makes a storage call only for a non-empty list.
AfterSave(ch) == IF Len(ch.updated) > 0 THEN "fl_update" ELSE "fl_cache"

AfterDelete(ch) == IF Len(ch.added) > 0 THEN "fl_save" ELSE AfterSave(ch)

AfterDetect(ch) == IF Len(ch.deleted) > 0 THEN "fl_delete" ELSE AfterDelete(ch)

\* The reader of connection c decodes a log_list envelope with payload newFiles;
\* handleFileList diffs it against the mirror and returns nil on an empty diff.
FL_Detect(c, payload) ==
    /\ Decodes(c)
    /\ \E cacheOrder \in RangeOrders(DOMAIN fileCache) :
         LET w == WalkResult(fileCache, payload, cacheOrder)
         IN \E addOrder \in RangeOrders(DOMAIN w.nm) :
              LET ch == detectFileChanges(fileCache, payload, cacheOrder, addOrder)
              IN IF isEmpty(ch)
                 THEN /\ flResult' = [flResult EXCEPT ![c] = "nil"]
                      /\ pc' = [pc EXCEPT ![c] = Resume(c)]
                      /\ UNCHANGED <<changes, newFiles>>
                 ELSE /\ flResult' = [flResult EXCEPT ![c] = "running"]
                      /\ pc' = [pc EXCEPT ![c] = AfterDetect(ch)]
                      /\ changes' = [changes EXCEPT ![c] = ch]
                      /\ newFiles' = [newFiles EXCEPT ![c] = payload]
    /\ fileReplay' = [fileReplay EXCEPT
                        ![c] = (LastRecords(payload) = snap[c] /\ flResult[c] = "nil")]
    /\ snap' = [snap EXCEPT ![c] = LastRecords(payload)]
    /\ UNCHANGED <<fileCache, dbFiles, fileUpdateCh, pending, storageFailed,
                   fileDropped>>
    /\ UNCHANGED nonFileVars

\* applyFileChanges going on to updateFileCache after a failed storage call
\* is.
FL_Fail_MirrorAnyway(c) ==
    /\ pc' = [pc EXCEPT ![c] = Resume(c)]
    /\ flResult' = [flResult EXCEPT ![c] = "error"]
    /\ storageFailed' = TRUE
    /\ fileCache' = updateFileCache(fileCache, changes[c])
    /\ changes' = [changes EXCEPT ![c] = NoChanges]
    /\ newFiles' = [newFiles EXCEPT ![c] = <<>>]
    /\ UNCHANGED <<dbFiles, fileUpdateCh, snap, pending, fileReplay, fileDropped>>
    /\ UNCHANGED nonFileVars

\* A failed storage call: applyFileChanges returns the error at once.
FL_Fail(c) ==
    /\ pc' = [pc EXCEPT ![c] = Resume(c)]
    /\ flResult' = [flResult EXCEPT ![c] = "error"]
    /\ storageFailed' = TRUE
    /\ changes' = [changes EXCEPT ![c] = NoChanges]
    /\ newFiles' = [newFiles EXCEPT ![c] = <<>>]
    /\ UNCHANGED <<fileCache, dbFiles, fileUpdateCh, snap, pending, fileReplay,
                   fileDropped>>
    /\ UNCHANGED nonFileVars

\* A successful storage call leaving the files table as db.
FL_Stored(c, db, next) ==
    /\ dbFiles' = db
    /\ pc' = [pc EXCEPT ![c] = next]
    /\ UNCHANGED <<fileCache, fileUpdateCh, changes, newFiles, snap, pending,
                   flResult, fileReplay, storageFailed, fileDropped>>
    /\ UNCHANGED nonFileVars

\* applyFileChanges logging a failed DeleteFiles call and going on to the
\* next storage step is.
FL_Delete_GoesOn(c, ok) ==
    /\ Running /\ pc[c] = "fl_delete"
    /\ IF ok THEN FL_Stored(c, DeleteFiles(dbFiles, changes[c].deleted),
                            AfterDelete(changes[c]))
       ELSE /\ pc' = [pc EXCEPT ![c] = AfterDelete(changes[c])]
            /\ flResult' = [flResult EXCEPT ![c] = "error"]
            /\ storageFailed' = TRUE
            /\ UNCHANGED <<fileCache, dbFiles, fileUpdateCh, changes, newFiles,
                           snap, pending, fileReplay, fileDropped>>
            /\ UNCHANGED nonFileVars

\* applyFileChanges, lines 205-209: h.db.DeleteFiles(changes.deleted)
FL_Delete(c, ok) ==
    /\ Running /\ pc[c] = "fl_delete"
    /\ IF ok THEN FL_Stored(c, DeleteFiles(dbFiles, changes[c].deleted),
                            AfterDelete(changes[c]))
       ELSE FL_Fail(c)

\* applyFileChanges, lines 211-215: h.db.SaveFiles(changes.added)
FL_Save(c, ok) ==
    /\ Running /\ pc[c] = "fl_save"
    /\ IF ok THEN FL_Stored(c, SaveFiles(dbFiles, changes[c].added),
                            AfterSave(changes[c]))
       ELSE FL_Fail(c)

\* applyFileChanges, lines 217-221: h.db.UpdateFiles(changes.updated)
FL_Update(c, ok) ==
    /\ Running /\ pc[c] = "fl_update"
    /\ IF ok THEN FL_Stored(c, UpdateFiles(dbFiles, changes[c].updated), "fl_cache")
       ELSE FL_Fail(c)

\* applyFileChanges, line 224: updateFileCache under the write lock; with
\* nothing to publish notifyFileChanges is a no-op and handleFileList returns.
FL_UpdateCache(c) ==
    /\ Running /\ pc[c] = "fl_cache"
    /\ fileCache' = updateFileCache(fileCache, changes[c])
    /\ LET toOffer == changes[c].added \o changes[c].updated
       IN /\ pending' = [pending EXCEPT ![c] = toOffer]
          /\ pc' = [pc EXCEPT ![c] = IF toOffer = <<>> THEN Resume(c)
                                     ELSE "fl_notify"]
          /\ flResult' = [flResult EXCEPT ![c] = IF toOffer = <<>> THEN "nil" ELSE @]
          /\ changes' = [changes EXCEPT ![c] = IF toOffer = <<>> THEN NoChanges ELSE @]
          /\ newFiles' = [newFiles EXCEPT ![c] = IF toOffer = <<>> THEN <<>> ELSE @]
    /\ UNCHANGED <<dbFiles, fileUpdateCh, snap, fileReplay, storageFailed,
                   fileDropped>>
    /\ UNCHANGED nonFileVars

\* notifyFileChanges keeping a record it could not send, to offer it again,
\* is.
FL_Notify_Retry(c) ==
    LET isSent == Len(fileUpdateCh) < FileUpdateCap
        rest == IF isSent THEN Tail(pending[c]) ELSE pending[c]
    IN /\ Running /\ pc[c] = "fl_notify"
       /\ fileUpdateCh' = Offer(fileUpdateCh, FileUpdateCap, Event(Head(pending[c])))
       /\ fileDropped' = (fileDropped \/ ~isSent)
       /\ pending' = [pending EXCEPT ![c] = rest]
       /\ pc' = [pc EXCEPT ![c] = IF rest = <<>> THEN Resume(c) ELSE @]
       /\ flResult' = [flResult EXCEPT ![c] = IF rest = <<>> THEN "nil" ELSE @]
       /\ changes' = [changes EXCEPT ![c] = IF rest = <<>> THEN NoChanges ELSE @]
       /\ newFiles' = [newFiles EXCEPT ![c] = IF rest = <<>> THEN <<>> ELSE @]
       /\ UNCHANGED <<fileCache, dbFiles, snap, fileReplay, storageFailed>>
       /\ UNCHANGED nonFileVars

\* notifyFileChanges: one non-blocking send per added or updated record; after
\* the last one handleFileList returns nil.
FL_Notify(c) ==
    /\ Running /\ pc[c] = "fl_notify"
    /\ "file_update" \notin closedChs
    /\ SendReady(fileUpdateCh, FileUpdateCap)
    /\ fileUpdateCh' = Offer(fileUpdateCh, FileUpdateCap, Event(Head(pending[c])))
    /\ fileDropped' = (fileDropped \/ Len(fileUpdateCh) >= FileUpdateCap)
    /\ pending' = [pending EXCEPT ![c] = Tail(@)]
    /\ pc' = [pc EXCEPT ![c] = IF Tail(pending[c]) = <<>> THEN Resume(c) ELSE @]
    /\ flResult' = [flResult EXCEPT ![c] = IF Tail(pending[c]) = <<>> THEN "nil" ELSE @]
    /\ changes' = [changes EXCEPT ![c] = IF Tail(pending[c]) = <<>> THEN NoChanges ELSE @]
    /\ newFiles' = [newFiles EXCEPT ![c] = IF Tail(pending[c]) = <<>> THEN <<>> ELSE @]
    /\ UNCHANGED <<fileCache, dbFiles, snap, fileReplay, storageFailed>>
    /\ UNCHANGED nonFileVars

\* The steps of handleFileList after the diff.
FL_Apply(c) ==
    \/ \E ok \in BOOLEAN : FL_Delete(c, ok)
    \/ \E ok \in BOOLEAN : FL_Save(c, ok)
    \/ \E ok \in BOOLEAN : FL_Update(c, ok)
    \/ FL_UpdateCache(c)
    \/ FL_Notify(c)

\* ------------------------------------------------------- mirror, first load

\* initializeFileCache, lines 119-126: one GetAllFiles call, with a 30-second
\* timeout; on an error the goroutine logs and returns, the mirror untouched.
IC_Query(ok) ==
    /\ Running /\ initPc = "query"
    /\ initPc' = IF ok THEN "load" ELSE "done"
    /\ initFiles' = IF ok THEN dbFiles ELSE EmptyMap
    /\ UNCHANGED <<pc, fileVars, pktVars, lifeVars, logVars, wsVars, otherVars>>

\* initializeFileCache, lines 128-136: under the write lock, every row read
\* is stored in the map under its path; no entry is removed.
IC_Load ==
    /\ Running /\ initPc = "load"
    /\ fileCache' = [p \in DOMAIN fileCache \cup DOMAIN initFiles |->
                        IF p \in DOMAIN initFiles THEN initFiles[p]
                        ELSE fileCache[p]]
    /\ initPc' = "done"
    /\ initFiles' = EmptyMap
    /\ UNCHANGED <<dbFiles, fileUpdateCh, changes, newFiles, snap, pending,
                   flResult, fileReplay, storageFailed, fileDropped>>
    /\ UNCHANGED <<pc, pktVars, lifeVars, logVars, wsVars, otherVars>>

\* ---------------------------------------------------------- packet batcher

\* handleMetrics putting the packets of the envelope in front of the buffer
\* is.
HM_Append_InFront(c, n) ==
    /\ Decodes(c)
    /\ LET packets == [i \in 1..n |-> nextPkt + i - 1]
           currentSize == Len(networkBatch) + n
       IN /\ networkBatch' = packets \o networkBatch
          /\ pc' = [pc EXCEPT ![c] = IF currentSize >= BatchSize
                                     THEN "nb_swap" ELSE Resume(c)]
    /\ nextPkt' = nextPkt + n
    /\ UNCHANGED <<networkStreamCh, batch, pktCalls, pktDropped>>
    /\ UNCHANGED nonPktVars

\* The reader of connection c decodes a metrics envelope of n packets;
\* handleMetrics appends all of them under the lock and, with the buffer at
\* batch size or above, goes on to flushNetworkBatch.
HM_Append(c, n) ==
    /\ Decodes(c)
    /\ LET packets == [i \in 1..n |-> nextPkt + i - 1]
           currentSize == Len(networkBatch) + n
       IN /\ networkBatch' = networkBatch \o packets
          /\ pc' = [pc EXCEPT ![c] = IF currentSize >= BatchSize
                                     THEN "nb_swap" ELSE Resume(c)]
    /\ nextPkt' = nextPkt + n
    /\ UNCHANGED <<networkStreamCh, batch, pktCalls, pktDropped>>
    /\ UNCHANGED nonPktVars

\* flushNetworkBatch taking the buffer without installing a new one is.
NB_Swap_Retains(t) ==
    /\ Running /\ pc[t] = "nb_swap"
    /\ IF Len(networkBatch) = 0
       THEN /\ pc' = [pc EXCEPT ![t] = Resume(t)]
            /\ UNCHANGED <<networkBatch, batch>>
       ELSE /\ batch' = [batch EXCEPT ![t] = networkBatch]
            /\ networkBatch' = networkBatch
            /\ pc' = [pc EXCEPT ![t] = "nb_save"]
    /\ UNCHANGED <<networkStreamCh, pktCalls, nextPkt, pktDropped>>
    /\ UNCHANGED nonPktVars

\* flushNetworkBatch, lines 322-331: under the lock, return on an empty
\* buffer, else take the whole buffer and leave an empty one.
NB_Swap(t) ==
    /\ Running /\ pc[t] = "nb_swap"
    /\ IF Len(networkBatch) = 0
       THEN /\ pc' = [pc EXCEPT ![t] = Resume(t)]
            /\ UNCHANGED <<networkBatch, batch>>
       ELSE /\ batch' = [batch EXCEPT ![t] = networkBatch]
            /\ networkBatch' = <<>>
            /\ pc' = [pc EXCEPT ![t] = "nb_save"]
    /\ UNCHANGED <<networkStreamCh, pktCalls, nextPkt, pktDropped>>
    /\ UNCHANGED nonPktVars

\* flushNetworkBatch putting the batch back in the buffer when the storage
\* call fails is.
NB_Save_Requeue(t, ok) ==
    /\ Running /\ pc[t] = "nb_save"
    /\ pktCalls' = Append(pktCalls, [batch |-> batch[t], ok |-> ok, by |-> t])
    /\ pc' = [pc EXCEPT ![t] = IF ok THEN "nb_offer" ELSE Resume(t)]
    /\ batch' = [batch EXCEPT ![t] = IF ok THEN @ ELSE <<>>]
    /\ networkBatch' = IF ok THEN networkBatch ELSE batch[t] \o networkBatch
    /\ UNCHANGED <<networkStreamCh, nextPkt, pktDropped>>
    /\ UNCHANGED nonPktVars

\* flushNetworkBatch, lines 334-336: one SaveNetworkPackets call for the
\* batch; on an error the function returns and the batch is gone.
NB_Save(t, ok) ==
    /\ Running /\ pc[t] = "nb_save"
    /\ pktCalls' = Append(pktCalls, [batch |-> batch[t], ok |-> ok, by |-> t])
    /\ pc' = [pc EXCEPT ![t] = IF ok THEN "nb_offer" ELSE Resume(t)]
    /\ batch' = [batch EXCEPT ![t] = IF ok THEN @ ELSE <<>>]
    /\ UNCHANGED <<networkBatch, networkStreamCh, nextPkt, pktDropped>>
    /\ UNCHANGED nonPktVars

\* flushNetworkBatch, lines 339-345: one non-blocking send of the batch.
NB_Offer(t) ==
    /\ Running /\ pc[t] = "nb_offer"
    /\ "network" \notin closedChs
    /\ SendReady(networkStreamCh, NetworkCap)
    /\ networkStreamCh' = Offer(networkStreamCh, NetworkCap, Event(batch[t]))
    /\ pktDropped' = (pktDropped \/ Len(networkStreamCh) >= NetworkCap)
    /\ batch' = [batch EXCEPT ![t] = <<>>]
    /\ pc' = [pc EXCEPT ![t] = Resume(t)]
    /\ UNCHANGED <<networkBatch, pktCalls, nextPkt>>
    /\ UNCHANGED nonPktVars

\* The steps of flushNetworkBatch run by task t.
NB_Flush(t) ==
    \/ NB_Swap(t)
    \/ \E ok \in BOOLEAN : NB_Save(t, ok)
    \/ NB_Offer(t)

\* periodicNetworkFlush with a tick that flushes nothing is.
TK_Select_NoFlush ==
    /\ Running /\ pc[Ticker] = "tick_wait"
    /\ \E fired \in {"shutdownCh", "ticker"} :
         /\ fired = "shutdownCh" => hShutdownCh
         /\ pc' = [pc EXCEPT ![Ticker] = IF fired = "shutdownCh" THEN "exited"
                                          ELSE "tick_wait"]
    /\ UNCHANGED pktVars
    /\ UNCHANGED nonPktVars

\* periodicNetworkFlush, lines 310-317: the select returns on a closed
\* h.shutdownCh and flushes when the 5-second ticker fires.
TK_Select ==
    /\ Running /\ pc[Ticker] = "tick_wait"
    /\ \E fired \in {"shutdownCh", "ticker"} :
         /\ fired = "shutdownCh" => hShutdownCh
         /\ pc' = [pc EXCEPT ![Ticker] = IF fired = "shutdownCh" THEN "exited"
                                          ELSE "nb_swap"]
    /\ UNCHANGED pktVars
    /\ UNCHANGED nonPktVars

\* ------------------------------------------------------------ log pipeline

\* handleLogData going on to stream the entries whatever SaveLogs returned is.
LD_Save_StreamAnyway(c, logs, ok) ==
    /\ Decodes(c)
    /\ logs = <<>> => ok
    /\ logCalls' = Append(logCalls, [logs |-> logs, ok |-> ok])
    /\ IF logs # <<>>
       THEN /\ pending' = [pending EXCEPT ![c] = logs]
            /\ pc' = [pc EXCEPT ![c] = "ld_offer"]
       ELSE /\ pc' = [pc EXCEPT ![c] = Resume(c)]
            /\ UNCHANGED pending
    /\ UNCHANGED <<logStreamCh, logDropped>>
    /\ UNCHANGED <<fileCache, dbFiles, fileUpdateCh, changes, newFiles, snap,
                   flResult, fileReplay, storageFailed, fileDropped>>
    /\ UNCHANGED <<pktVars, lifeVars, wsVars, loadVars, otherVars>>

\* The reader of connection c decodes a log_data envelope; handleLogData,
\* lines 283-290, makes one SaveLogs call with all its entries and returns
\* the error if it fails. SaveLogs returns nil for an empty list.
LD_Save(c, logs, ok) ==
    /\ Decodes(c)
    /\ logs = <<>> => ok
    /\ logCalls' = Append(logCalls, [logs |-> logs, ok |-> ok])
    /\ IF ok /\ logs # <<>>
       THEN /\ pending' = [pending EXCEPT ![c] = logs]
            /\ pc' = [pc EXCEPT ![c] = "ld_offer"]
       ELSE /\ pc' = [pc EXCEPT ![c] = Resume(c)]
            /\ UNCHANGED pending
    /\ UNCHANGED <<logStreamCh, logDropped>>
    /\ UNCHANGED <<fileCache, dbFiles, fileUpdateCh, changes, newFiles, snap,
                   flResult, fileReplay, storageFailed, fileDropped>>
    /\ UNCHANGED <<pktVars, lifeVars, wsVars, loadVars, otherVars>>

\* handleLogData, lines 293-299: one non-blocking send per entry, in the
\* order of the envelope; after the last one the handler returns nil.
LD_Offer(c) ==
    /\ Running /\ pc[c] = "ld_offer"
    /\ "log" \notin closedChs
    /\ SendReady(logStreamCh, LogCap)
    /\ logStreamCh' = Offer(logStreamCh, LogCap, Event(Head(pending[c])))
    /\ logDropped' = (logDropped \/ Len(logStreamCh) >= LogCap)
    /\ pending' = [pending EXCEPT ![c] = Tail(@)]
    /\ pc' = [pc EXCEPT ![c] = IF Tail(pending[c]) = <<>> THEN Resume(c) ELSE @]
    /\ UNCHANGED logCalls
    /\ UNCHANGED <<fileCache, dbFiles, fileUpdateCh, changes, newFiles, snap,
                   flResult, fileReplay, storageFailed, fileDropped>>
    /\ UNCHANGED <<pktVars, lifeVars, wsVars, loadVars, otherVars>>

\* ------------------------------------------------------ subscriber sessions

\* ServeWS, lines 47-67: the upgrade succeeds; readPump and writePump start.
\* The HTTP listener takes requests until Shutdown is called.
WS_Connect(s) ==
    /\ apiRun = "serving"
    /\ ws[s] = "none"
    /\ ws' = [ws EXCEPT ![s] = "live"]
    /\ rp' = [rp EXCEPT ![s] = "reading"]
    /\ UNCHANGED <<viewers, sent>>
    /\ UNCHANGED nonWsVars

\* readPump, lines 81-89: a view_file frame with a string payload sets the
\* file the session views. A frame that arrived before ServeWS closed the
\* connection is still handled after it.
WS_View(s, filePath) ==
    /\ Running /\ rp[s] = "reading"
    /\ viewers' = MapSet(viewers, s, filePath)
    /\ UNCHANGED <<ws, rp, sent>>
    /\ UNCHANGED nonWsVars

\* readPump, lines 72-98: a frame ReadJSON decoded goes through the switch
\* on its type. view_file stores the string its payload unmarshals to;
\* speed_control unmarshals a number and does nothing with it; any other
\* type falls through; an unmarshal error skips the frame.
WS_Frame(s, f) ==
    /\ Running /\ rp[s] = "reading"
    /\ msg' = [msg EXCEPT ![s] = f]
    /\ viewers' = IF f.Type = "view_file" /\ ~UnmarshalString(f).err
                  THEN MapSet(viewers, s, UnmarshalString(f).val)
                  ELSE viewers
    /\ UNCHANGED <<ws, rp, sent>>
    /\ UNCHANGED <<pc, fileVars, pktVars, logVars, lifeVars, loadVars>>
    /\ UNCHANGED <<rejected, closedChs, panicked, getLogsCalls>>

\* readPump, lines 73-79: ReadJSON fails, on the connection ServeWS closed
\* or (peer) on a closed or broken stream; readPump returns and nothing else.
WS_ReadError(s, peer) ==
    /\ Running /\ rp[s] = "reading"
    /\ peer \/ ws[s] = "exited"
    /\ rp' = [rp EXCEPT ![s] = "exited"]
    /\ UNCHANGED <<ws, viewers, sent>>
    /\ UNCHANGED nonWsVars

\* h.viewers[conn]: the zero value for a connection without an entry.
ViewingFile(s) == IF s \in DOMAIN viewers THEN viewers[s] ELSE NoFile

\* A failed write that empties the registry of viewed files is.
Written_ClearsViewers(s, ok, type, payload) ==
    /\ sent' = [sent EXCEPT ![s][type] = IF ok THEN @ \cup {payload} ELSE @]
    /\ ws' = [ws EXCEPT ![s] = IF ok THEN @ ELSE "exited"]
    /\ viewers' = IF ok THEN viewers ELSE EmptyMap

\* What a frame written (ok) or failing to be written does to session s:
\* writePump goes on, or returns and ServeWS deletes the viewers entry and
\* closes the connection.
Written(s, ok, type, payload) ==
    /\ sent' = [sent EXCEPT ![s][type] = IF ok THEN @ \cup {payload} ELSE @]
    /\ ws' = [ws EXCEPT ![s] = IF ok THEN @ ELSE "exited"]
    /\ viewers' = IF ok THEN viewers ELSE MapDelete(viewers, s)

\* writePump, lines 112-119: a batch received from NetworkStream is written
\* as a network frame.
WS_Network(s, ok) ==
    /\ Running /\ ws[s] = "live"
    /\ networkStreamCh # <<>>
    /\ networkStreamCh' = Tail(networkStreamCh)
    /\ Written(s, ok, "network", Head(networkStreamCh).v)
    /\ UNCHANGED <<rp, pc, fileVars, lifeVars, logVars, loadVars, otherVars>>
    /\ UNCHANGED <<networkBatch, batch, pktCalls, nextPkt, pktDropped>>

\* writePump writing every entry it receives from LogStream is.
WS_Log_NoFilter(s, ok) ==
    /\ Running /\ ws[s] = "live"
    /\ logStreamCh # <<>>
    /\ logStreamCh' = Tail(logStreamCh)
    /\ Written(s, ok, "log", Head(logStreamCh).v)
    /\ UNCHANGED <<rp, pc, fileVars, lifeVars, pktVars, loadVars, otherVars>>
    /\ UNCHANGED <<logCalls, logDropped>>

\* writePump, lines 121-135: an entry received from LogStream is written as
\* a log frame if the session views the entry's file, and else discarded.
WS_Log(s, ok) ==
    /\ Running /\ ws[s] = "live"
    /\ logStreamCh # <<>>
    /\ logStreamCh' = Tail(logStreamCh)
    /\ IF ViewingFile(s) = Head(logStreamCh).v.Filename
       THEN Written(s, ok, "log", Head(logStreamCh).v)
       ELSE ok /\ UNCHANGED <<sent, ws, viewers>>
    /\ UNCHANGED <<rp, pc, fileVars, lifeVars, pktVars, loadVars, otherVars>>
    /\ UNCHANGED <<logCalls, logDropped>>

\* writePump, lines 137-144: a record received from FileUpdates is written
\* as a file_update frame.
WS_File(s, ok) ==
    /\ Running /\ ws[s] = "live"
    /\ fileUpdateCh # <<>>
    /\ fileUpdateCh' = Tail(fileUpdateCh)
    /\ Written(s, ok, "file_update", Head(fileUpdateCh).v)
    /\ UNCHANGED <<rp, pc, pktVars, lifeVars, logVars, loadVars, otherVars>>
    /\ UNCHANGED <<fileCache, dbFiles, changes, newFiles, snap, pending,
                   flResult, fileReplay, storageFailed, fileDropped>>

\* writePump, lines 146-150: the ping of the 100 ms ticker fails to be
\* written (a ping that is written changes nothing).
WS_PingError(s) ==
    /\ Running /\ ws[s] = "live"
    /\ ws' = [ws EXCEPT ![s] = "exited"]
    /\ viewers' = MapDelete(viewers, s)
    /\ UNCHANGED <<rp, sent>>
    /\ UNCHANGED nonWsVars

\* writePump receiving from one of the three channels.
WS_Receive(s, ok) == WS_Network(s, ok) \/ WS_Log(s, ok) \/ WS_File(s, ok)

\* The zero values of the three element types: a nil slice of packets, a
\* LogEntry and a FileNode with every field zero.
ZeroValue(type) ==
    CASE type = "network" -> <<>>
      [] type = "log" -> [Filename |-> "", LineNum |-> 0]
      [] OTHER -> [Path |-> "", ParentPath |-> "", Name |-> "",
                   IsDirectory |-> FALSE, Size |-> 0, ModTime |-> 0,
                   IsGzipped |-> FALSE, IsScraped |-> FALSE]

\* The channel of a frame type is empty.
Drained(type) ==
    CASE type = "network" -> networkStreamCh = <<>>
      [] type = "log" -> logStreamCh = <<>>
      [] OTHER -> fileUpdateCh = <<>>

\* writePump, lines 112-144: the receive has no second result, so on a
\* closed and drained channel the case is ready at once with the zero value
\* of the element type, which is written like any item (a log entry if its
\* empty filename is the file the session views).
WS_ReceiveClosed(s, type, ok) ==
    /\ Running /\ ws[s] = "live"
    /\ type \in closedChs /\ Drained(type)
    /\ IF type = "log" /\ ViewingFile(s) # ZeroValue("log").Filename
       THEN ok /\ UNCHANGED <<sent, ws, viewers>>
       ELSE Written(s, ok, type, ZeroValue(type))
    /\ UNCHANGED <<rp, pc, fileVars, pktVars, logVars, lifeVars, loadVars,
                   otherVars>>

\* ------------------------------------------------------------- HTTP API

\* the limit GetLogs passes to the storage
DefaultLimit == 100

\* the largest limit the API documents
MaxLimit == 1000

\* GetLogs requests served in one behaviour
MaxLogQueries == 2

\* The query parameters of GET /api/logs: file (empty when absent), before
\* (absent, an RFC 3339 time, or text that is none) and limit (given or not).
LimitParams ==
    {[given |-> FALSE, n |-> 0]}
        \cup { [given |-> TRUE, n |-> k] : k \in {1, DefaultLimit, MaxLimit, MaxLimit + 1} }

GetLogsRequests ==
    [file : {"", "/a"}, before : {"absent", "valid", "invalid"}, limit : LimitParams]

\* api.Handler.GetLogs: 400 without a file or with a before that does not
\* parse; else one GetLogs call on the storage, with the limit 100 whatever
\* the request says, answered with the entries or, on an error, with 500.
API_GetLogs(req, ok) ==
    /\ apiRun = "serving"
    /\ IF req.file = "" \/ req.before = "invalid"
       THEN UNCHANGED getLogsCalls
       ELSE getLogsCalls' =
               Append(getLogsCalls, [req |-> req, limit |-> DefaultLimit, ok |-> ok])
    /\ UNCHANGED <<msg, rejected, closedChs, panicked>>
    /\ UNCHANGED <<pc, fileVars, pktVars, logVars, lifeVars, wsVars, loadVars>>

\* -------------------------------------------------------- Handler.Close

\* The channel a task sends on at a position of a handler.
SendsOn(at) ==
    CASE at = "nb_offer" -> "network"
      [] at = "ld_offer" -> "log"
      [] at = "fl_notify" -> "file_update"
      [] OTHER -> "none"

\* Close, lines 371-373: inside shutdownOnce.Do, h.shutdownCh is closed and
\* flushNetworkBatch is called. Close is exported and nothing in the
\* repository calls it: its owner may call it at any moment.
HC_Close ==
    /\ Running /\ pc[Closer] = "none"
    /\ hShutdownCh' = TRUE
    /\ pc' = [pc EXCEPT ![Closer] = "nb_swap"]
    /\ UNCHANGED <<ctxDone, atCancel, apiRun, srvRun, srvErr, srvDrain,
                   acceptErrors, srvShutdownCh, listenerOpen, acceptLoop,
                   connOpen, connections, activeConns>>
    /\ UNCHANGED nonLifeVars

\* Close, lines 375-377: after the flush the three channels are closed, one
\* statement each, in the order network, log, file updates.
HC_CloseChannels ==
    /\ Running /\ pc[Closer] = "hc_close"
    /\ LET next == IF "network" \notin closedChs THEN "network"
                   ELSE IF "log" \notin closedChs THEN "log"
                   ELSE "file_update"
       IN /\ closedChs' = closedChs \cup {next}
          /\ pc' = [pc EXCEPT ![Closer] = IF next = "file_update" THEN "exited"
                                          ELSE @]
    /\ UNCHANGED <<msg, rejected, panicked, getLogsCalls>>
    /\ UNCHANGED <<fileVars, pktVars, logVars, lifeVars, wsVars, loadVars>>

\* A send on a closed channel panics, also inside a select with a default
\* case: the process ends.
HC_SendPanics(t) ==
    /\ Running /\ SendsOn(pc[t]) \in closedChs
    /\ panicked' = TRUE
    /\ apiRun' = "returned"
    /\ UNCHANGED <<msg, rejected, closedChs, getLogsCalls>>
    /\ UNCHANGED <<ctxDone, atCancel, srvRun, srvErr, srvDrain, acceptErrors,
                   srvShutdownCh, listenerOpen, acceptLoop, connOpen,
                   connections, activeConns, hShutdownCh>>
    /\ UNCHANGED <<pc, fileVars, pktVars, logVars, wsVars, loadVars>>

\* ------------------------------------------------ startup and shutdown

\* main, lines 30-34: a termination signal cancels the root context.
Cancel ==
    /\ Running /\ ~ctxDone
    /\ ctxDone' = TRUE
    /\ atCancel' = networkBatch
    /\ UNCHANGED <<apiRun, srvRun, acceptErrors, srvShutdownCh, listenerOpen,
                   acceptLoop, connOpen, connections, activeConns, hShutdownCh,
                   srvErr, srvDrain>>
    /\ UNCHANGED <<pc, nonLifeVars>>

\* api.Server.Run, lines 83-91: woken by the cancelled context it calls
\* http.Server.Shutdown with a 5-second timeout.
Api_Shutdown ==
    /\ apiRun = "serving" /\ ctxDone
    /\ apiRun' = "http_shutdown"
    /\ UNCHANGED <<ctxDone, atCancel, srvRun, acceptErrors, srvShutdownCh,
                   listenerOpen, acceptLoop, connOpen, connections, activeConns,
                   hShutdownCh, srvErr, srvDrain>>
    /\ UNCHANGED <<pc, nonLifeVars>>

\* Shutdown returns, Run returns and main returns with it: the process ends
\* with every other goroutine wherever it is.
Api_Return ==
    /\ apiRun = "http_shutdown"
    /\ apiRun' = "returned"
    /\ UNCHANGED <<ctxDone, atCancel, srvRun, acceptErrors, srvShutdownCh,
                   listenerOpen, acceptLoop, connOpen, connections, activeConns,
                   hShutdownCh, srvErr, srvDrain>>
    /\ UNCHANGED <<pc, nonLifeVars>>

\* untrackConnection counting down without looking c up in the set is.
Untracked_Unchecked(c) ==
    /\ connections' = connections \ {c}
    /\ activeConns' = activeConns - 1

\* untrackConnection: remove c from the set and count it down if it is there.
Untracked(c) ==
    /\ connections' = connections \ {c}
    /\ activeConns' = IF c \in connections THEN activeConns - 1 ELSE activeConns

\* untrackConnection called once more for a connection whose goroutine has
\* exited and untracked it. The goroutine of acceptLoop is its only caller
\* in the repository and calls it once; this is the call the `exists` test
\* of line 525 guards against.
Untrack_Again(c) ==
    /\ Running /\ pc[c] = "exited"
    /\ Untracked(c)
    /\ UNCHANGED <<ctxDone, atCancel, apiRun, srvRun, acceptErrors, srvShutdownCh,
                   listenerOpen, acceptLoop, connOpen, hShutdownCh, srvErr,
                   srvDrain>>
    /\ UNCHANGED <<pc, nonLifeVars>>

\* acceptLoop, line 447: Accept returns connection c.
AL_Accept(c) ==
    /\ Running /\ acceptLoop = "accept" /\ listenerOpen
    /\ pc[c] = "none"
    /\ connOpen' = [connOpen EXCEPT ![c] = TRUE]
    /\ pc' = [pc EXCEPT ![c] = "accepted"]
    /\ acceptLoop' = "track"
    /\ UNCHANGED <<ctxDone, atCancel, apiRun, srvRun, srvErr, srvDrain, acceptErrors,
                   srvShutdownCh, listenerOpen, connections, activeConns,
                   hShutdownCh>>
    /\ UNCHANGED nonLifeVars

\* acceptLoop, lines 461-477, and trackConnection: the connection Accept
\* returned is put in the set and counted, its goroutine is started and the
\* loop goes back to Accept.
AL_Track(c) ==
    /\ Running /\ acceptLoop = "track"
    /\ pc[c] = "accepted"
    /\ connections' = connections \cup {c}
    /\ activeConns' = activeConns + 1
    /\ pc' = [pc EXCEPT ![c] = "keepalive"]
    /\ acceptLoop' = "accept"
    /\ UNCHANGED <<ctxDone, atCancel, apiRun, srvRun, srvErr, srvDrain, acceptErrors,
                   srvShutdownCh, listenerOpen, connOpen, hShutdownCh>>
    /\ UNCHANGED nonLifeVars

\* acceptLoop, lines 448-457: Accept fails, on a closed listener or (failure)
\* for a reason of its own; the loop ends and reports the error unless the
\* root context is cancelled.
AL_AcceptError(failure) ==
    /\ Running /\ acceptLoop = "accept"
    /\ failure \/ ~listenerOpen
    /\ acceptLoop' = "exited"
    /\ acceptErrors' = IF ctxDone THEN acceptErrors ELSE TRUE
    /\ UNCHANGED <<ctxDone, atCancel, apiRun, srvRun, srvShutdownCh, listenerOpen,
                   connOpen, connections, activeConns, hShutdownCh, srvErr,
                   srvDrain>>
    /\ UNCHANGED <<pc, nonLifeVars>>

\* handleConnection, lines 483-509: with keepalive set the monitor goroutine
\* starts and HandleConnection begins; if setting it fails the function
\* returns at once and the connection is untracked.
RD_KeepAlive(c, ok) ==
    /\ Running /\ pc[c] = "keepalive"
    /\ IF ok THEN /\ pc' = [pc EXCEPT ![c] = Resume(c)]
                  /\ UNCHANGED <<connections, activeConns>>
       ELSE /\ pc' = [pc EXCEPT ![c] = "exited"]
            /\ Untracked(c)
    /\ UNCHANGED <<ctxDone, atCancel, apiRun, srvRun, acceptErrors, srvShutdownCh,
                   listenerOpen, acceptLoop, connOpen, hShutdownCh, srvErr,
                   srvDrain>>
    /\ UNCHANGED nonLifeVars

\* The monitor goroutine of connection c runs while HandleConnection does.
Monitored(c) == pc[c] \notin {"none", "accepted", "keepalive", "exited"}

\* handleConnection, lines 497-506: the monitor closes the socket on a
\* cancelled context or a closed Server.shutdownCh.
Mon_Close(c) ==
    /\ Running /\ Monitored(c)
    /\ ctxDone \/ srvShutdownCh
    /\ connOpen[c]
    /\ connOpen' = [connOpen EXCEPT ![c] = FALSE]
    /\ UNCHANGED <<ctxDone, atCancel, apiRun, srvRun, acceptErrors, srvShutdownCh,
                   listenerOpen, acceptLoop, connections, activeConns, hShutdownCh,
                   srvErr, srvDrain>>
    /\ UNCHANGED <<pc, nonLifeVars>>

\* HandleConnection returning with its failure reported to Run as an accept
\* failure is.
RD_Exit_Fatal(c, peer) ==
    /\ Running
    /\ \/ pc[c] = "closing"
       \/ pc[c] = "decode" /\ (peer \/ ~connOpen[c])
    /\ connOpen' = [connOpen EXCEPT ![c] = FALSE]
    /\ Untracked(c)
    /\ pc' = [pc EXCEPT ![c] = "exited"]
    /\ acceptErrors' = TRUE
    /\ UNCHANGED <<ctxDone, atCancel, apiRun, srvRun, srvShutdownCh,
                   listenerOpen, acceptLoop, hShutdownCh, srvErr, srvDrain>>
    /\ UNCHANGED nonLifeVars

\* HandleConnection returns: at its select, or from Decode failing on a
\* closed socket or (peer) on a closed or garbled stream. The deferred calls
\* close the socket and untrack the connection.
RD_Exit(c, peer) ==
    /\ Running
    /\ \/ pc[c] = "closing"
       \/ pc[c] = "decode" /\ (peer \/ ~connOpen[c])
    /\ connOpen' = [connOpen EXCEPT ![c] = FALSE]
    /\ Untracked(c)
    /\ pc' = [pc EXCEPT ![c] = "exited"]
    /\ UNCHANGED <<ctxDone, atCancel, apiRun, srvRun, acceptErrors, srvShutdownCh,
                   listenerOpen, acceptLoop, hShutdownCh, srvErr, srvDrain>>
    /\ UNCHANGED nonLifeVars

\* Server.Run, lines 437-442, and shutdown, lines 534-546: woken by the
\* cancelled context or an accept error, Run closes Server.shutdownCh, the
\* listener and every tracked connection.
Srv_Shutdown ==
    /\ Running /\ srvRun = "select"
    /\ \E woken \in {"ctx", "acceptErrors"} :
         /\ woken = "ctx" => ctxDone
         /\ woken = "acceptErrors" => acceptErrors
         /\ acceptErrors' = IF woken = "acceptErrors" THEN FALSE ELSE acceptErrors
         /\ srvErr' = IF woken = "acceptErrors" THEN "accept" ELSE "ctx"
    /\ srvShutdownCh' = TRUE
    /\ listenerOpen' = FALSE
    /\ connOpen' = [c \in Conns |-> connOpen[c] /\ c \notin connections]
    /\ srvRun' = "wait"
    /\ UNCHANGED <<ctxDone, atCancel, apiRun, srvDrain, acceptLoop, connections,
                   activeConns, hShutdownCh>>
    /\ UNCHANGED <<pc, nonLifeVars>>

\* shutdown, lines 549-566: Run returns when the wait group is at zero or
\* (timeout) the 10-second timer fires.
Srv_Complete(timeout) ==
    /\ Running /\ srvRun = "wait"
    /\ timeout \/ activeConns = 0
    /\ srvRun' = "returned"
    /\ srvDrain' = IF timeout THEN "timeout" ELSE "complete"
    /\ UNCHANGED <<ctxDone, atCancel, apiRun, srvErr, acceptErrors, srvShutdownCh,
                   listenerOpen, acceptLoop, connOpen, connections, activeConns,
                   hShutdownCh>>
    /\ UNCHANGED <<pc, nonLifeVars>>

\* ------------------------------------------------- specification: the diff

\* Every mirror over the records in nodes (a record is stored under its path).
MirrorsOf(nodes) ==
    { m \in UNION { [D -> nodes] : D \in SUBSET Paths } :
        \A p \in DOMAIN m : m[p].Path = p }

\* Everything outside the mirror, the storage and the goroutine that loads
\* the mirror, before the first envelope, with the connections in open
\* accepted and their readers waiting in Decode and the sessions in live
\* connected.
InitTasks(open, live) ==
    /\ pc = [t \in Tasks |-> IF t = Ticker THEN "tick_wait"
                             ELSE IF t \in open THEN "decode" ELSE "none"]
    /\ fileUpdateCh = <<>>
    /\ changes = [c \in Conns |-> NoChanges]
    /\ newFiles = [c \in Conns |-> <<>>]
    /\ snap = [c \in Conns |-> EmptyMap]
    /\ pending = [c \in Conns |-> <<>>]
    /\ flResult = [c \in Conns |-> "none"]
    /\ fileReplay = [c \in Conns |-> FALSE]
    /\ storageFailed = FALSE
    /\ fileDropped = FALSE
    /\ networkBatch = <<>>
    /\ networkStreamCh = <<>>
    /\ batch = [t \in Tasks |-> <<>>]
    /\ pktCalls = <<>>
    /\ nextPkt = 1
    /\ pktDropped = FALSE
    /\ logStreamCh = <<>>
    /\ logCalls = <<>>
    /\ logDropped = FALSE
    /\ ws = [s \in Sessions |-> IF s \in live THEN "live" ELSE "none"]
    /\ rp = [s \in Sessions |-> IF s \in live THEN "reading" ELSE "none"]
    /\ viewers = EmptyMap
    /\ sent = [s \in Sessions |-> [type \in FrameTypes |-> {}]]
    /\ ctxDone = FALSE
    /\ atCancel = <<>>
    /\ apiRun = "serving"
    /\ srvRun = "select"
    /\ srvErr = "none"
    /\ srvDrain = "none"
    /\ acceptErrors = FALSE
    /\ srvShutdownCh = FALSE
    /\ listenerOpen = TRUE
    /\ acceptLoop = "accept"
    /\ connOpen = [c \in Conns |-> c \in open]
    /\ connections = open
    /\ activeConns = Cardinality(open)
    /\ hShutdownCh = FALSE
    /\ msg = [s \in Sessions |-> NoMsg]
    /\ rejected = [c \in Conns |-> "none"]
    /\ closedChs = {}
    /\ panicked = FALSE
    /\ getLogsCalls = <<>>

\* The same, with initializeFileCache returned.
InitRest(open, live) ==
    /\ InitTasks(open, live)
    /\ initPc = "done"
    /\ initFiles = EmptyMap

\* detectFileChanges as a function of its inputs: any mirror, any payload.
InitDiff ==
    /\ fileCache \in MirrorsOf(DiffNodes)
    /\ dbFiles = fileCache
    /\ InitRest({1}, {})

\* One call per behaviour: the inputs are the mirror of the initial state and
\* the payload chosen here.
NextDiff ==
    /\ flResult[1] = "none"
    /\ \E payload \in SnapshotsOf(FileNodes, MaxSnapLen) : FL_Detect(1, payload)

SpecDiff == InitDiff /\ [][NextDiff]_vars

\* ----------------------------------- specification: the file pipeline alone

\* One agent connection sending log_list envelopes, processed one at a time;
\* the mirror has been loaded from storage (initializeFileCache has returned).
InitFiles ==
    /\ fileCache \in MirrorsOf(SnapNodes)
    /\ dbFiles = fileCache
    /\ InitRest({1}, {})

NextFiles ==
    \/ \E payload \in SnapshotsOf(SnapNodes, MaxSnapLen) : FL_Detect(1, payload)
    \/ FL_Apply(1)

SpecFiles == InitFiles /\ [][NextFiles]_vars

\* ------------------------------ specification: one snapshot, three lists

\* The records sent in this specification: /b as the mirror holds it, /b
\* with a material change, and a path the mirror does not hold; /a, which
\* the mirror holds, is in no snapshot.
ApplyNodes ==
    { BaseNode("/b"), [BaseNode("/b") EXCEPT !.Size = 20], BaseNode("/c") }

\* The mirror, loaded from storage, holds /a and /b; one agent connection
\* sends log_list envelopes, so that a snapshot can delete, add and update
\* at once.
InitApply ==
    /\ fileCache = [p \in {"/a", "/b"} |-> BaseNode(p)]
    /\ dbFiles = fileCache
    /\ InitRest({1}, {})

NextApply ==
    \/ \E payload \in SnapshotsOf(ApplyNodes, MaxSnapLen) : FL_Detect(1, payload)
    \/ FL_Apply(1)

SpecApply == InitApply /\ [][NextApply]_vars

\* ------------------------------------------------ specification: startup

\* NewHandler has returned: the mirror is empty, the goroutine of
\* initializeFileCache has been started and has not yet queried the
\* storage, which holds the rows of an earlier run; the ingest listener has
\* accepted a connection.
InitStartup ==
    /\ fileCache = EmptyMap
    /\ dbFiles \in MirrorsOf(SnapNodes)
    /\ InitTasks({1}, {})
    /\ initPc = "query"
    /\ initFiles = EmptyMap

NextStartup ==
    \/ \E ok \in BOOLEAN : IC_Query(ok)
    \/ IC_Load
    \/ \E payload \in SnapshotsOf(SnapNodes, MaxSnapLen) : FL_Detect(1, payload)
    \/ FL_Apply(1)

SpecStartup == InitStartup /\ [][NextStartup]_vars

\* ------------------------------------- specification: the packet batcher

\* Two agent connections sending metrics envelopes and the ticker, with no
\* subscriber draining networkStreamCh.
InitPackets ==
    /\ fileCache = EmptyMap
    /\ dbFiles = EmptyMap
    /\ InitRest(Conns, {})

NextPackets ==
    \/ \E c \in Conns, n \in 0..MaxEnvelope :
          nextPkt + n - 1 <= MaxPackets /\ HM_Append(c, n)
    \/ \E t \in Tasks : NB_Flush(t)
    \/ TK_Select

SpecPackets == InitPackets /\ [][NextPackets]_vars

\* The same with the ticker firing again and again and no task pausing for
\* ever inside flushNetworkBatch (storage calls return). Nothing is assumed
\* of the envelopes that arrive.
SpecPacketsFair ==
    /\ SpecPackets
    /\ WF_vars(TK_Select)
    /\ \A t \in Tasks : WF_vars(NB_Flush(t))

\* ------------------------------------------- specification: a packet burst

\* Two and a half batches of packets (2,500 with the default batch size).
BurstPackets == 2 * BatchSize + (BatchSize \div 2)

InitBurst ==
    /\ fileCache = EmptyMap
    /\ dbFiles = EmptyMap
    /\ InitRest({1}, {1})

\* One agent connection sends BurstPackets packets back to back, in metrics
\* envelopes of one packet or more; the ticker fires only once the last of
\* them is in and handleMetrics has returned. A subscriber session receives
\* the batches that are published.
NextBurst ==
    \/ WS_Network(1, TRUE)
    \/ \E n \in 1..MaxEnvelope : nextPkt + n - 1 <= BurstPackets /\ HM_Append(1, n)
    \/ NB_Flush(1)
    \/ nextPkt > BurstPackets /\ pc[1] = "decode" /\ TK_Select
    \/ NB_Flush(Ticker)

SpecBurst == InitBurst /\ [][NextBurst]_vars

\* ------------------------------------------------- specification: shutdown

\* The whole ingest side from startup: connections are accepted, send metrics
\* envelopes and end; the ticker flushes; a subscriber session connects; a
\* signal cancels the root context.
InitShutdown ==
    /\ fileCache = EmptyMap
    /\ dbFiles = EmptyMap
    /\ InitRest({}, {})

\* The steps the program takes by itself once they are possible.
ShutdownSteps ==
    \/ Api_Shutdown
    \/ Api_Return
    \/ Srv_Shutdown
    \/ \E timeout \in BOOLEAN : Srv_Complete(timeout)
    \/ AL_AcceptError(FALSE)
    \/ \E c \in Conns : AL_Track(c)
    \/ \E c \in Conns : RD_KeepAlive(c, TRUE) \/ Mon_Close(c) \/ RD_Exit(c, FALSE)
    \/ \E t \in Tasks : NB_Flush(t)
    \/ TK_Select

\* The steps that take an input or a fault from outside.
ShutdownInputs ==
    \/ Cancel
    \/ WS_Connect(1)
    \/ WS_PingError(1)
    \/ AL_AcceptError(TRUE)
    \/ \E c \in Conns : AL_Accept(c) \/ RD_KeepAlive(c, FALSE) \/ RD_Exit(c, TRUE)
    \/ \E c \in Conns : nextPkt <= ShutdownPackets /\ HM_Append(c, 1)

NextShutdown == ShutdownSteps \/ ShutdownInputs

SpecShutdown == InitShutdown /\ [][NextShutdown]_vars

\* The ingest server with untrackConnection also called for connections
\* that are already untracked.
NextTracking ==
    \/ NextShutdown
    \/ \E c \in Conns : Untrack_Again(c)

SpecTracking == InitShutdown /\ [][NextTracking]_vars

\* The same with every step of the program taken once it stays possible.
SpecShutdownFair ==
    /\ SpecShutdown
    /\ WF_vars(Api_Shutdown) /\ WF_vars(Api_Return)
    /\ WF_vars(Srv_Shutdown) /\ WF_vars(\E timeout \in BOOLEAN : Srv_Complete(timeout))
    /\ WF_vars(AL_AcceptError(FALSE))
    /\ \A c \in Conns : /\ WF_vars(AL_Track(c))
                         /\ WF_vars(RD_KeepAlive(c, TRUE))
                         /\ WF_vars(Mon_Close(c))
                         /\ WF_vars(RD_Exit(c, FALSE))
    /\ \A t \in Tasks : WF_vars(NB_Flush(t))
    /\ WF_vars(TK_Select)

\* --------------------------------------------------- specification: ingest

\* The records of the snapshots sent in the ingest specification.
IngestNodes == {BaseNode("/a"), [BaseNode("/a") EXCEPT !.Size = 20]}

\* The log_data payload sent in the ingest specification: entries of one
\* file, numbered from 1, as many as an envelope may hold.
IngestLogs ==
    { logs \in LogPayloads :
        /\ Len(logs) = MaxLogLen
        /\ \A i \in 1..Len(logs) : logs[i] = [Filename |-> "/a", LineNum |-> i] }

\* One agent connection sending envelopes of the three types, the ticker,
\* and a subscriber session that is connected and never receives.
InitIngest ==
    /\ fileCache = EmptyMap
    /\ dbFiles = EmptyMap
    /\ InitRest({1}, {1})

\* The steps of the router on connection 1 after an envelope is decoded.
IngestHandle ==
    \/ FL_Apply(1)
    \/ LD_Offer(1)
    \/ NB_Flush(1)

\* The envelopes connection 1 delivers.
IngestDecode ==
    \/ \E payload \in SnapshotsOf(IngestNodes, 1) : FL_Detect(1, payload)
    \/ \E logs \in IngestLogs, ok \in BOOLEAN :
          Len(logCalls) < IngestLogCalls /\ LD_Save(1, logs, ok)
    \/ nextPkt <= IngestPackets /\ HM_Append(1, 1)

NextIngest ==
    \/ IngestHandle
    \/ IngestDecode
    \/ NB_Flush(Ticker)
    \/ TK_Select

SpecIngest == InitIngest /\ [][NextIngest]_vars

\* The reader of connection 1 with envelopes of every kind, those that
\* processMessage rejects included, until the peer hangs up or the context
\* is cancelled and the monitor closes the socket.
NextReader ==
    \/ IngestHandle
    \/ IngestDecode
    \/ \E kind \in RejectKinds : PM_Error(1, kind)
    \/ Cancel
    \/ Mon_Close(1)
    \/ \E peer \in BOOLEAN : RD_Exit(1, peer)

SpecReader == InitIngest /\ [][NextReader]_vars

\* The same with the router never pausing inside a handler: storage calls
\* return and the handler takes its next step. Nothing is assumed of the
\* ticker or of the session.
SpecIngestFair == SpecIngest /\ WF_vars(IngestHandle)

\* -------------------------------------------------- specification: fan-out

\* The log_data payload sent in the fan-out specification.
FanoutLogs == {<<[Filename |-> "/a", LineNum |-> 1]>>}

\* One agent connection sending envelopes of the three types to a storage
\* that works, and two subscriber sessions that connect, choose a file and
\* receive. The snapshots are empty or list the one record of /a.
InitFanout ==
    /\ fileCache = EmptyMap
    /\ dbFiles = EmptyMap
    /\ InitRest({1}, {})

\* The steps of the router on connection 1 after an envelope is decoded.
FanoutHandle ==
    \/ FL_Delete(1, TRUE) \/ FL_Save(1, TRUE)
    \/ FL_UpdateCache(1) \/ FL_Notify(1)
    \/ LD_Offer(1)
    \/ NB_Swap(1) \/ NB_Save(1, TRUE) \/ NB_Offer(1)

\* The envelopes connection 1 delivers.
FanoutDecode ==
    \/ \E payload \in SnapshotsOf({BaseNode("/a")}, 1) : FL_Detect(1, payload)
    \/ \E logs \in FanoutLogs :
          Len(logCalls) < FanoutLogCalls /\ LD_Save(1, logs, TRUE)
    \/ nextPkt + MaxEnvelope - 1 <= FanoutPackets /\ HM_Append(1, MaxEnvelope)

NextFanout ==
    \/ FanoutHandle
    \/ FanoutDecode
    \/ \E s \in Sessions : WS_Connect(s) \/ (ws[s] = "live" /\ WS_View(s, "/a"))
    \/ \E s \in Sessions, ok \in BOOLEAN : WS_Receive(s, ok)

SpecFanout == InitFanout /\ [][NextFanout]_vars

\* ------------------------------------------------- specification: sessions

\* The payloads of view_file frames: a path or the empty string.
ViewFiles == {"/a", ""}

\* The log_data payloads sent in the sessions specification: one entry, of
\* a file or without a filename.
SessionLogs ==
    { logs \in LogPayloads :
        /\ Len(logs) = 1
        /\ logs[1].LineNum = 1 /\ logs[1].Filename \in ViewFiles }

\* One agent connection sending log_data envelopes, and two subscriber
\* sessions that connect, send view_file frames, receive, and end on a read
\* or a write error.
InitSessions ==
    /\ fileCache = EmptyMap
    /\ dbFiles = EmptyMap
    /\ InitRest({1}, {})

\* The steps a session takes by itself once they are possible: receiving
\* from LogStream, and the read failing on the connection ServeWS closed.
SessionSteps ==
    \/ \E s \in Sessions : WS_Log(s, TRUE)
    \/ \E s \in Sessions : WS_ReadError(s, FALSE)

\* What the clients and the network do to a session.
SessionInputs ==
    \/ \E s \in Sessions : WS_Connect(s)
    \/ \E s \in Sessions, filePath \in ViewFiles : WS_View(s, filePath)
    \/ \E s \in Sessions : WS_ReadError(s, TRUE)
    \/ \E s \in Sessions : WS_Log(s, FALSE)
    \/ \E s \in Sessions : WS_PingError(s)

\* The router on connection 1.
SessionRouter ==
    \/ \E logs \in SessionLogs, ok \in BOOLEAN :
          Len(logCalls) < SessionLogCalls /\ LD_Save(1, logs, ok)
    \/ LD_Offer(1)

NextSessions == SessionSteps \/ SessionInputs \/ SessionRouter

SpecSessions == InitSessions /\ [][NextSessions]_vars

\* The same with every step of a session and of the router taken once it
\* stays possible.
SpecSessionsFair ==
    /\ SpecSessions
    /\ WF_vars(SessionSteps)
    /\ WF_vars(LD_Offer(1))

\* ------------------------------------------ specification: control frames

\* Two subscriber sessions that connect, send control frames of every type
\* and payload kind, and end on a read or a write error.
NextFrames ==
    \/ \E s \in Sessions : WS_Connect(s)
    \/ \E s \in Sessions, f \in ControlFrames : WS_Frame(s, f)
    \/ \E s \in Sessions, peer \in BOOLEAN : WS_ReadError(s, peer)
    \/ \E s \in Sessions : WS_PingError(s)

SpecFrames == InitSessions /\ [][NextFrames]_vars

\* ------------------------------------------------ specification: GetLogs

\* The HTTP server is serving; clients send GET /api/logs requests.
InitGetLogs ==
    /\ fileCache = EmptyMap
    /\ dbFiles = EmptyMap
    /\ InitRest({}, {})

NextGetLogs ==
    \E req \in GetLogsRequests, ok \in BOOLEAN :
        Len(getLogsCalls) < MaxLogQueries /\ API_GetLogs(req, ok)

SpecGetLogs == InitGetLogs /\ [][NextGetLogs]_vars

\* --------------------------------------------- specification: two agents

\* Two agent connections, each sending snapshots that are empty or list /a,
\* with one size or another, to a storage that works; the mirror is loaded
\* and equals the storage.
InitTwoAgents ==
    /\ fileCache \in {EmptyMap, [p \in {"/a"} |-> BaseNode(p)]}
    /\ dbFiles = fileCache
    /\ InitRest(Conns, {})

NextTwoAgents ==
    \E c \in Conns :
       \/ \E payload \in SnapshotsOf(IngestNodes, 1) : FL_Detect(c, payload)
       \/ FL_Delete(c, TRUE) \/ FL_Save(c, TRUE) \/ FL_Update(c, TRUE)
       \/ FL_UpdateCache(c) \/ FL_Notify(c)

SpecTwoAgents == InitTwoAgents /\ [][NextTwoAgents]_vars

\* -------------------------------------------------- specification: Close

\* One agent connection sending envelopes of the three types to a storage
\* that works, the ticker, a connected session that receives, and Close
\* called at some moment; the reader returns once it sees h.shutdownCh
\* closed.
NextClose ==
    \/ FanoutHandle
    \/ FanoutDecode
    \/ NB_Flush(Ticker)
    \/ TK_Select
    \/ RD_Exit(1, FALSE)
    \/ HC_Close
    \/ NB_Flush(Closer)
    \/ HC_CloseChannels
    \/ \E t \in Tasks : HC_SendPanics(t)
    \/ WS_Receive(1, TRUE)
    \/ \E type \in FrameTypes : WS_ReceiveClosed(1, type, TRUE)

SpecClose == InitIngest /\ [][NextClose]_vars

\* --------------------------------------------------------------- properties

\* A difference in one of the four material fields.
MaterialDiff(a, b) ==
    ~ (a.ModTime = b.ModTime /\ a.Size = b.Size /\
       a.IsDirectory = b.IsDirectory /\ a.IsGzipped = b.IsGzipped)

NoRepeat(s) == \A i, j \in 1..Len(s) : i # j => s[i] # s[j]

\* Connection c has processed snapshots and is between two envelopes.
Processed(c) == pc[c] = "decode" /\ flResult[c] # "none"

C2_DiffIsReference ==
    pc[1] # "decode" =>
        LET S == Elems(newFiles[1])
            ch == changes[1]
        IN /\ Elems(ch.deleted) = (DOMAIN fileCache) \ { r.Path : r \in S }
           /\ Elems(ch.added) = { r \in S : r.Path \notin DOMAIN fileCache }
           /\ Elems(ch.updated) =
                { r \in S : /\ r.Path \in DOMAIN fileCache
                            /\ MaterialDiff(fileCache[r.Path], r) }

\* C2 amended: the same with S read as the last record it lists per path; a
\* path whose last record differs from the mirror's only in is_scraped, name
\* or parent_path is in none of the three lists.
C2_DiffIsReferenceOfLastRecords ==
    flResult[1] # "none" =>
        LET S == { snap[1][p] : p \in DOMAIN snap[1] }
            ch == changes[1]
        IN /\ Elems(ch.deleted) = (DOMAIN fileCache) \ { r.Path : r \in S }
           /\ Elems(ch.added) = { r \in S : r.Path \notin DOMAIN fileCache }
           /\ Elems(ch.updated) =
                { r \in S : /\ r.Path \in DOMAIN fileCache
                            /\ MaterialDiff(fileCache[r.Path], r) }
           /\ \A r \in S :
                (r.Path \in DOMAIN fileCache /\ ~MaterialDiff(fileCache[r.Path], r))
                    => r.Path \notin Elems(ch.deleted) \cup Elems(PathsOf(ch.added))
                                        \cup Elems(PathsOf(ch.updated))

\* A payload naming one path twice with materially different records, diffed
\* into an update and a deletion.
C2_Witness ==
    /\ Len(newFiles[1]) = 2 /\ newFiles[1][1].Path = newFiles[1][2].Path
    /\ MaterialDiff(newFiles[1][1], newFiles[1][2])
    /\ changes[1].updated # <<>> /\ changes[1].deleted # <<>>

\* C3: added, updated and deleted are pairwise disjoint on path and no path
\* occurs twice within one list, also when the payload repeats a path.
C3_ListsDisjoint ==
    \A c \in Conns :
        LET a == PathsOf(changes[c].added)
            u == PathsOf(changes[c].updated)
            d == changes[c].deleted
        IN /\ NoRepeat(a) /\ NoRepeat(u) /\ NoRepeat(d)
           /\ Elems(a) \cap Elems(u) = {}
           /\ Elems(a) \cap Elems(d) = {}
           /\ Elems(u) \cap Elems(d) = {}

\* A payload repeating a mirrored path, diffed into an update and a deletion.
C3_Witness ==
    /\ Len(newFiles[1]) = 2 /\ newFiles[1][1].Path = newFiles[1][2].Path
    /\ newFiles[1][1] # newFiles[1][2]
    /\ Len(changes[1].updated) = 1 /\ Len(changes[1].deleted) = 1

\* C4 as stated: whenever no snapshot application is in progress the mirror
\* equals the files table, also after an application one of whose storage
\* calls failed.
C4_MirrorIsStorage ==
    (\A c \in Conns : pc[c] \in {"none", "decode"}) => fileCache = dbFiles

C6_CallAtMostBatchSize ==
    \A i \in 1..Len(pktCalls) : Len(pktCalls[i].batch) <= BatchSize

\* Packet p has been handed to a SaveNetworkPackets call.
Handed(p) == \E i \in 1..Len(pktCalls) : p \in Elems(pktCalls[i].batch)

\* C7 as stated: once the root context is cancelled, every packet that was
\* in the buffer at that moment is eventually handed to a storage call.
C7_FinalFlush ==
    ctxDone ~> (\A p \in Elems(atCancel) : Handed(p))

\* Every long-lived task of the ingest side has returned.
TasksExited ==
    /\ acceptLoop = "exited"
    /\ \A c \in Conns : pc[c] \in {"none", "exited"}
    /\ pc[Ticker] = "exited"
    /\ \A s \in Sessions : ws[s] \in {"none", "exited"}

\* C10 as stated: once the root context is cancelled, eventually the accept
\* loop, every reader, the flush ticker task and every session writer have
\* exited.
C10_TasksExit == ctxDone ~> TasksExited

\* Session s has been sent the value of event ev as a frame of the type.
Delivered(s, type, ev) == ev.v \in sent[s][type]'

\* The step receives the head of channel ch.
Received(ch) == ch # <<>> /\ ch' = Tail(ch)

\* Every session that was live when ev was sent on its channel, is still
\* live and (for a log entry) views its file, has been sent it.
ReachedAll(type, ev) ==
    \A s \in ev.live :
        (ws'[s] = "live" /\ (type = "log" => ViewingFile(s) = ev.v.Filename))
            => Delivered(s, type, ev)

\* C8 as stated: every event the router publishes reaches every session live
\* at that time (a log entry: every one viewing its file); once a session
\* has taken it off its channel, each of these sessions has been sent it.
C8_Broadcast ==
    [][ /\ Received(networkStreamCh) => ReachedAll("network", Head(networkStreamCh))
        /\ Received(logStreamCh) => ReachedAll("log", Head(logStreamCh))
        /\ Received(fileUpdateCh) => ReachedAll("file_update", Head(fileUpdateCh))
      ]_vars

\* Connection c is inside a handler, past the decoding of the envelope.
Handling(c) ==
    pc[c] \notin {"none", "accepted", "keepalive", "decode", "closing", "exited"}

\* C9: whatever the sessions do, and with none of them ever receiving, the
\* processing of every envelope completes once its storage calls return.
C9_IngestCompletes == \A c \in Conns : Handling(c) ~> ~Handling(c)

\* All three channels are full with a session connected, a send of each class
\* has been refused, and the handlers have returned.
C9_Witness ==
    /\ ws[1] = "live"
    /\ Len(networkStreamCh) = NetworkCap /\ pktDropped
    /\ Len(logStreamCh) = LogCap /\ logDropped
    /\ Len(fileUpdateCh) = FileUpdateCap /\ fileDropped
    /\ ~Handling(1)

\* C11: when Run has returned and the wait of shutdown ended with all
\* connections done, not with the 10-second timer, every connection Accept
\* ever returned is closed, is out of the set of tracked connections and has
\* no task left: none is open or about to be registered.
C11_AllJoined ==
    (srvRun = "returned" /\ srvDrain = "complete") =>
        \A c \in Conns : /\ pc[c] \in {"none", "exited"}
                          /\ ~connOpen[c]
                          /\ c \notin connections

\* C12: an Accept failure is reported exactly when the root context is not
\* cancelled at that moment (after cancellation it is suppressed), and when
\* an accept error has been reported Run hands that error to shutdown and
\* returns it.
C12_AcceptError ==
    [][ /\ (acceptLoop = "accept" /\ acceptLoop' = "exited") =>
               (acceptErrors' <=> ~ctxDone)
        /\ (srvRun = "select" /\ srvRun' = "wait" /\ acceptErrors) =>
               srvErr' = "accept" ]_vars

\* The reader of connection c returns from a failed Decode.
DecodeFails(c) == pc[c] = "decode" /\ pc'[c] = "exited"

\* C13: a decode error on a connection closes it, deregisters it and ends
\* its reader, and changes nothing else: the accept loop and the listener,
\* Run, and the readers and sockets of the other connections are as before.
C13_DecodeErrorIsLocal ==
    [][ \A c \in Conns : DecodeFails(c) =>
          /\ ~connOpen'[c] /\ c \notin connections'
          /\ acceptLoop' = acceptLoop /\ listenerOpen' = listenerOpen
          /\ srvRun' = srvRun /\ acceptErrors' = acceptErrors
          /\ srvShutdownCh' = srvShutdownCh /\ hShutdownCh' = hShutdownCh
          /\ ctxDone' = ctxDone
          /\ \A d \in Conns \ {c} :
                /\ pc'[d] = pc[d] /\ connOpen'[d] = connOpen[d]
                /\ (d \in connections') = (d \in connections) ]_vars

\* Connection 1 has ended on a decode error of its own (nothing is cancelled
\* or shut down, and its socket was closed by its reader), while connection 2
\* is read, the listener accepts and Run waits.
C13_Witness ==
    /\ pc[1] = "exited" /\ ~connOpen[1] /\ 1 \notin connections
    /\ ~ctxDone /\ ~srvShutdownCh /\ ~hShutdownCh
    /\ pc[2] = "decode" /\ connOpen[2] /\ 2 \in connections
    /\ acceptLoop = "accept" /\ listenerOpen /\ srvRun = "select"
    /\ ~acceptErrors

\* C14: a packet in the buffer is eventually handed to SaveNetworkPackets,
\* whether or not an append ever brings the buffer to BatchSize: the ticker
\* takes what is there at its next tick (the handler is never shut down in
\* this specification).
C14_TimeTrigger ==
    \A p \in 1..MaxPackets : (p \in Elems(networkBatch)) ~> Handed(p)

\* The ticker has taken a buffer below BatchSize and handed it to storage.
C14_Witness ==
    /\ pc[Ticker] = "nb_offer"
    /\ batch[Ticker] # <<>> /\ Len(batch[Ticker]) < BatchSize
    /\ pktCalls # <<>> /\ pktCalls[Len(pktCalls)].batch = batch[Ticker]

\* The burst is over: every packet is in, the buffer is empty and no task is
\* inside flushNetworkBatch.
BurstDone ==
    /\ nextPkt > BurstPackets /\ networkBatch = <<>>
    /\ pc[1] = "decode" /\ pc[Ticker] = "tick_wait"

\* The sizes the burst should be stored in: full batches, then the rest.
BurstSizes ==
    [i \in 1..(BurstPackets \div BatchSize) |-> BatchSize]
        \o (IF BurstPackets % BatchSize = 0 THEN <<>>
            ELSE <<BurstPackets % BatchSize>>)

\* C15: an append that brings the buffer to BatchSize or more sends the
\* appending task into flushNetworkBatch before handleMetrics returns, and a
\* burst of two and a half batches is stored in exactly three calls, of
\* BatchSize, BatchSize and half of BatchSize packets, the last one made by
\* the ticker.
C15_SizeTrigger ==
    [][ /\ \A c \in Conns :
              (pc[c] = "decode" /\ Len(networkBatch') > Len(networkBatch)
                  /\ Len(networkBatch') >= BatchSize) => pc'[c] = "nb_swap"
        /\ BurstDone' =>
              /\ [i \in 1..Len(pktCalls') |-> Len(pktCalls'[i].batch)] = BurstSizes
              /\ pktCalls'[Len(pktCalls')].by = Ticker ]_vars

\* The writer of session s writes a log frame.
LogFrame(s) == sent'[s]["log"] # sent[s]["log"]

\* C16: a session is sent a log frame only for the entry its writer has
\* just received, and only if the filename of that entry is the file the
\* session views at that moment; an entry of another file leaves the frames
\* of the session as they are.
C16_LogFilter ==
    [][ \A s \in Sessions : LogFrame(s) =>
          /\ logStreamCh # <<>> /\ logStreamCh' = Tail(logStreamCh)
          /\ Head(logStreamCh).v.Filename = ViewingFile(s)
          /\ sent'[s]["log"] = sent[s]["log"] \cup {Head(logStreamCh).v} ]_vars

\* Session 1 views /a and has been sent an entry of /a; session 2 views
\* nothing, is live and was sent no log frame.
C16_Witness ==
    /\ ws[1] = "live" /\ ViewingFile(1) = "/a"
    /\ [Filename |-> "/a", LineNum |-> 1] \in sent[1]["log"]
    /\ ws[2] = "live" /\ sent[2]["log"] = {}

\* C17: a session whose viewed file is the empty string (it has sent no
\* view_file frame, or its last one carried "") is sent no log frame,
\* whatever the filename of the entry its writer receives.
C17_EmptyViewNoLogs ==
    [][ \A s \in Sessions : ViewingFile(s) = NoFile => ~LogFrame(s) ]_vars

\* C18: a session whose reader has returned on a read error ends, and a
\* session that has ended has no entry in the registry of viewed files,
\* then and ever after.
C18_SessionEnds ==
    \A s \in Sessions :
        /\ (rp[s] = "exited") ~> (ws[s] = "exited")
        /\ [](ws[s] = "exited" => s \notin DOMAIN viewers)

\* The writer of session s returns on a write error.
WriteFails(s) == ws[s] = "live" /\ ws'[s] = "exited"

\* C19: a write error on a session ends the writer of that session and
\* changes nothing of any other session (writer, reader, viewed file) nor of
\* the router, which is where it was.
C19_WriteErrorIsLocal ==
    [][ \A s \in Sessions : WriteFails(s) =>
          /\ \A r \in Sessions \ {s} :
                /\ ws'[r] = ws[r] /\ rp'[r] = rp[r]
                /\ (r \in DOMAIN viewers') = (r \in DOMAIN viewers)
                /\ r \in DOMAIN viewers => viewers'[r] = viewers[r]
          /\ pc' = pc /\ pending' = pending ]_vars

\* Session 1 has ended on a write error while session 2 views /a; session 2
\* is live with its choice in place and the router is handling an envelope.
C19_Witness ==
    /\ ws[1] = "exited" /\ ws[2] = "live"
    /\ 2 \in DOMAIN viewers /\ viewers[2] = "/a"
    /\ pc[1] = "ld_offer"

\* The packets of the batch of a failed SaveNetworkPackets call are nowhere:
\* not in the buffer, in no batch a task holds, in no other call, not in
\* the fan-out queue and in no frame sent.
FailedBatchLost ==
    \A i \in 1..Len(pktCalls) : ~pktCalls[i].ok =>
        \A p \in Elems(pktCalls[i].batch) :
            /\ p \notin Elems(networkBatch)
            /\ \A t \in Tasks : p \notin Elems(batch[t])
            /\ \A j \in 1..Len(pktCalls) : j # i => p \notin Elems(pktCalls[j].batch)
            /\ \A k \in 1..Len(networkStreamCh) : p \notin Elems(networkStreamCh[k].v)
            /\ \A s \in Sessions : \A b \in sent[s]["network"] : p \notin Elems(b)

\* Task t leaves position at in this step.
Leaves(t, at) == pc[t] = at /\ pc'[t] # at

\* C20: the batch a flush swapped out is offered to networkStreamCh if and
\* only if its SaveNetworkPackets call succeeded: after a successful call
\* the task goes on to offer that batch, and nothing is put on the queue but
\* by that offer; after a failed call the task returns with the buffer and
\* the queue as they were, and the batch is never seen again.
C20_PublishIffStored ==
    [][ /\ \A t \in Tasks : Leaves(t, "nb_save") =>
              LET call == pktCalls'[Len(pktCalls')]
              IN /\ call.batch = batch[t]
                 /\ call.ok => pc'[t] = "nb_offer" /\ batch'[t] = call.batch
                 /\ ~call.ok => /\ pc'[t] \notin {"nb_swap", "nb_save", "nb_offer"}
                                /\ networkBatch' = networkBatch
                                /\ networkStreamCh' = networkStreamCh
        /\ \A t \in Tasks : Leaves(t, "nb_offer") =>
              networkStreamCh' = Offer(networkStreamCh, NetworkCap, Event(batch[t]))
        /\ Len(networkStreamCh') > Len(networkStreamCh) =>
              \E t \in Tasks : Leaves(t, "nb_offer")
        /\ FailedBatchLost' ]_vars

\* A storage call has failed and a later one succeeded, whose batch is on
\* the fan-out queue.
C20_Witness ==
    \E i, j \in 1..Len(pktCalls) :
        /\ i < j /\ ~pktCalls[i].ok /\ pktCalls[j].ok
        /\ networkStreamCh # <<>>
        /\ networkStreamCh[1].v = pktCalls[j].batch

\* C21: handling a log_data envelope makes one SaveLogs call, with the whole
\* list; if it succeeds the entries are offered to logStreamCh one by one in
\* the order of the list, each by a non-blocking send that drops it on a
\* full channel, and no further call is made; if it fails the handler
\* returns with nothing enqueued. Nothing else puts an entry on the channel.
C21_LogsStoredThenStreamed ==
    [][ /\ \A c \in Conns : (Leaves(c, "decode") /\ logCalls' # logCalls) =>
              LET call == logCalls'[Len(logCalls')]
              IN /\ Len(logCalls') = Len(logCalls) + 1
                 /\ logStreamCh' = logStreamCh
                 /\ (call.ok /\ call.logs # <<>>) =>
                        pc'[c] = "ld_offer" /\ pending'[c] = call.logs
                 /\ ~call.ok => pc'[c] # "ld_offer" /\ pending'[c] = <<>>
        /\ \A c \in Conns : (pc[c] = "ld_offer" /\ pending'[c] # pending[c]) =>
              /\ logStreamCh' = Offer(logStreamCh, LogCap, Event(Head(pending[c])))
              /\ pending'[c] = Tail(pending[c])
              /\ logCalls' = logCalls
              /\ pc'[c] = "ld_offer" <=> pending'[c] # <<>>
        /\ Len(logStreamCh') > Len(logStreamCh) =>
              \E c \in Conns : pc[c] = "ld_offer" ]_vars

\* The one call of an envelope of several entries succeeded; its first entry
\* is on the channel, a later one was dropped on the full channel, and the
\* handler has returned.
C21_Witness ==
    /\ Len(logCalls) = 1 /\ logCalls[1].ok /\ Len(logCalls[1].logs) > 1
    /\ logStreamCh # <<>> /\ logStreamCh[1].v = logCalls[1].logs[1]
    /\ logDropped
    /\ pc[1] = "decode" /\ pending[1] = <<>>

\* The place of a position of handleFileList in the order of its steps.
FileStep(at) ==
    CASE at = "fl_delete" -> 1
      [] at = "fl_save" -> 2
      [] at = "fl_update" -> 3
      [] at = "fl_cache" -> 4
      [] at = "fl_notify" -> 5
      [] OTHER -> 0

\* Connection c is inside handleFileList, past the diff.
InFileList(c) == FileStep(pc[c]) > 0

\* C22: the storage calls of one snapshot come in the order delete, insert,
\* update, each made at most once (the handler only moves forward through
\* them), each call is the one of its step, the mirror is written only in
\* the step after the last of them, and a failed call ends the handler with
\* the storage and the mirror as they were.
C22_DeleteInsertUpdate ==
    [][ \A c \in Conns :
          /\ (InFileList(c) /\ pc'[c] # pc[c] /\ FileStep(pc'[c]) > 0) =>
                 FileStep(pc'[c]) > FileStep(pc[c])
          /\ (Leaves(c, "fl_delete") /\ flResult'[c] # "error") =>
                 dbFiles' = DeleteFiles(dbFiles, changes[c].deleted)
          /\ (Leaves(c, "fl_save") /\ flResult'[c] # "error") =>
                 dbFiles' = SaveFiles(dbFiles, changes[c].added)
          /\ (Leaves(c, "fl_update") /\ flResult'[c] # "error") =>
                 dbFiles' = UpdateFiles(dbFiles, changes[c].updated)
          /\ (InFileList(c) /\ flResult'[c] = "error") =>
                 /\ FileStep(pc[c]) \in 1..3 /\ FileStep(pc'[c]) = 0
                 /\ dbFiles' = dbFiles /\ fileCache' = fileCache
          /\ dbFiles' # dbFiles => \E d \in Conns : FileStep(pc[d]) \in 1..3
          /\ fileCache' # fileCache => \E d \in Conns : Leaves(d, "fl_cache") ]_vars

\* A snapshot with a deletion, an addition and an update has gone through
\* its three storage calls and the mirror is about to be written.
C22_Witness ==
    /\ pc[1] = "fl_cache"
    /\ changes[1].deleted # <<>> /\ changes[1].added # <<>>
    /\ changes[1].updated # <<>>
    /\ "/a" \notin DOMAIN dbFiles /\ "/c" \in DOMAIN dbFiles
    /\ dbFiles["/b"].Size = 20 /\ fileCache["/b"].Size = 10

\* The records s of a snapshot, by path, are the mirror's records up to the
\* fields the diff does not compare.
SameAsMirror(s) ==
    /\ DOMAIN s = DOMAIN fileCache
    /\ \A p \in DOMAIN s : ~isFileChanged(fileCache[p], s[p])

\* C23: a snapshot whose diff against the mirror is empty is handled in one
\* step that returns to the decoder with no storage call made, the storage
\* and the mirror as they were and nothing sent on the file fan-out queue.
C23_EmptyDiffNoEffect ==
    [][ \A c \in Conns :
          (pc[c] = "decode" /\ SameAsMirror(snap'[c])) =>
              /\ pc'[c] = "decode" /\ flResult'[c] = "nil"
              /\ dbFiles' = dbFiles /\ storageFailed' = storageFailed
              /\ fileCache' = fileCache
              /\ fileUpdateCh' = fileUpdateCh /\ pending' = pending ]_vars

\* The snapshot handled last repeated the one before it, so its diff was
\* empty, and the handler has returned.
C23_Witness ==
    /\ fileReplay[1] /\ pc[1] = "decode" /\ flResult[1] = "nil"
    /\ DOMAIN snap[1] # {} /\ SameAsMirror(snap[1])
    /\ fileUpdateCh = <<>>

\* C24: the step that writes the mirror leaves for publication the added
\* records followed by the updated ones, each once, all of them in the
\* mirror by then and none of a deleted path; every later step of the
\* handler offers the first of them without waiting, and drops it when the
\* queue is full; nothing else sends on the file fan-out queue.
C24_OfferedOnceAfterApply ==
    [][ /\ \A c \in Conns :
             Leaves(c, "fl_cache") =>
                 /\ pending'[c] = changes[c].added \o changes[c].updated
                 /\ Cardinality(Elems(PathsOf(pending'[c]))) = Len(pending'[c])
                 /\ \A r \in Elems(pending'[c]) :
                        /\ r.Path \in DOMAIN fileCache'
                        /\ fileCache'[r.Path] = r
                        /\ r.Path \notin Elems(changes[c].deleted)
                 /\ fileUpdateCh' = fileUpdateCh
                 /\ pc'[c] = "fl_notify" <=> pending'[c] # <<>>
        /\ \A c \in Conns :
             ( /\ pc[c] = "fl_notify"
               /\ <<pc[c], pending[c], fileUpdateCh, fileDropped>>
                     # <<pc'[c], pending'[c], fileUpdateCh', fileDropped'>> ) =>
                 /\ pending[c] # <<>>
                 /\ fileUpdateCh' =
                      IF Len(fileUpdateCh) < FileUpdateCap
                      THEN Append(fileUpdateCh, Event(Head(pending[c])))
                      ELSE fileUpdateCh
                 /\ pending'[c] = Tail(pending[c])
                 /\ fileCache' = fileCache /\ dbFiles' = dbFiles
                 /\ pc'[c] = "fl_notify" <=> pending'[c] # <<>>
        /\ Len(fileUpdateCh') > Len(fileUpdateCh) =>
             \E c \in Conns : pc[c] = "fl_notify" ]_vars

\* A snapshot that deleted /a, added /c and updated /b was applied: the added
\* record is in the queue, the updated one found the queue full and was
\* dropped, and the handler has returned.
C24_Witness ==
    /\ pc[1] = "decode" /\ flResult[1] = "nil" /\ fileDropped
    /\ Len(fileUpdateCh) = FileUpdateCap
    /\ fileUpdateCh[1].v = BaseNode("/c")
    /\ DOMAIN fileCache = {"/b", "/c"} /\ fileCache["/b"].Size = 20
    /\ DOMAIN snap[1] = {"/b", "/c"}

\* No fan-out queue holds more than its capacity.
QueuesBounded ==
    /\ Len(networkStreamCh) <= NetworkCap
    /\ Len(logStreamCh) <= LogCap
    /\ Len(fileUpdateCh) <= FileUpdateCap

\* A step in which a task makes its offer to a full queue leaves the queue
\* as it was.
FullQueueUnchanged ==
    /\ \A t \in Tasks :
          (Leaves(t, "nb_offer") /\ Len(networkStreamCh) >= NetworkCap) =>
              networkStreamCh' = networkStreamCh
    /\ \A c \in Conns :
          ( /\ pc[c] = "ld_offer" /\ pending'[c] # pending[c]
            /\ Len(logStreamCh) >= LogCap ) => logStreamCh' = logStreamCh
    /\ \A c \in Conns :
          ( /\ pc[c] = "fl_notify" /\ pending'[c] # pending[c]
            /\ Len(fileUpdateCh) >= FileUpdateCap ) => fileUpdateCh' = fileUpdateCh

\* C25: in every reachable state each fan-out queue holds at most its
\* capacity, and an offer to a full queue leaves the queue unchanged.
C25_QueuesBounded == []QueuesBounded /\ [][FullQueueUnchanged]_vars

\* Each of the three queues was full when an offer was made to it, and is
\* still full.
C25_Witness ==
    /\ pktDropped /\ logDropped /\ fileDropped
    /\ Len(networkStreamCh) = NetworkCap
    /\ Len(logStreamCh) = LogCap
    /\ Len(fileUpdateCh) = FileUpdateCap

\* Connection c is inside flushNetworkBatch, called by handleMetrics.
InFlush(c) == pc[c] \in {"nb_swap", "nb_save", "nb_offer"}

\* What the reader of connection c holds belongs to the one handler it is
\* in: nothing between two envelopes, and inside a handler nothing of the
\* other two.
OneEnvelopeAtATime ==
    \A c \in Conns :
       /\ pc[c] = "decode" =>
              pending[c] = <<>> /\ changes[c] = NoChanges /\ batch[c] = <<>>
       /\ InFileList(c) =>
              /\ batch[c] = <<>> /\ changes[c] # NoChanges
              /\ pc[c] # "fl_notify" => pending[c] = <<>>
       /\ pc[c] = "ld_offer" => changes[c] = NoChanges /\ batch[c] = <<>>
       /\ InFlush(c) => pending[c] = <<>> /\ changes[c] = NoChanges

\* A step in which an envelope reaches its handler (a log_data envelope
\* makes a SaveLogs call, a metrics envelope appends its packets, a log_list
\* envelope is diffed) is taken by a reader blocked in Decode, and a reader
\* that left Decode comes back to it or returns only from a handler.
DecodesAfterReturn ==
    /\ ( \/ logCalls' # logCalls
         \/ nextPkt' # nextPkt
         \/ snap' # snap \/ fileReplay' # fileReplay ) =>
           \E c \in Conns :
              /\ pc[c] = "decode"
              /\ \A d \in Conns \ {c} : pc'[d] = pc[d]
    /\ \A c \in Conns :
          (pc'[c] \in {"decode", "closing"} /\ pc[c] # pc'[c]) =>
              InFileList(c) \/ InFlush(c) \/ pc[c] \in {"ld_offer", "decode"}

\* C26: within one agent connection at most one envelope is being processed
\* at any time, and the next envelope is decoded and dispatched only after
\* the handler of the one before it has returned.
C26_Serialized == []OneEnvelopeAtATime /\ [][DecodesAfterReturn]_vars

\* Connection 1 has had a log_data and a metrics envelope handled and is
\* inside the handler of a log_list envelope.
C26_Witness ==
    /\ Len(logCalls) = 1 /\ nextPkt > 1
    /\ pc[1] = "fl_notify" /\ pending[1] # <<>>

\* The batches of the sequence s (each a non-empty run of packet numbers)
\* are in the order in which they were swapped out of the buffer: packets
\* are numbered as they are appended, so an earlier batch has the lower
\* numbers.
InSwapOrder(s) ==
    \A i, j \in 1..Len(s) : i < j => s[i][Len(s[i])] < s[j][1]

\* C27 as stated: the SaveNetworkPackets calls, and the batches on the
\* packet fan-out queue, are in the order in which their batches were
\* swapped out of the buffer.
C27_FlushInSwapOrder ==
    /\ InSwapOrder([i \in 1..Len(pktCalls) |-> pktCalls[i].batch])
    /\ InSwapOrder([i \in 1..Len(networkStreamCh) |-> networkStreamCh[i].v])

\* How often p occurs in the sequence s.
Occ(s, p) == Cardinality({ i \in 1..Len(s) : s[i] = p })

\* The batches swapped out of the buffer so far: those handed to a
\* SaveNetworkPackets call and those a task holds on its way to the call.
SwappedBatches ==
    [i \in 1..Len(pktCalls) |-> pktCalls[i].batch]
        \o [i \in 1..Cardinality({ t \in Tasks : pc[t] = "nb_save" }) |->
              batch[CHOOSE t \in Tasks :
                      /\ pc[t] = "nb_save"
                      /\ Cardinality({ u \in Tasks : pc[u] = "nb_save" /\ u < t })
                           = i - 1]]

\* How often p occurs in the swapped-out batches, all together.
RECURSIVE OccIn(_, _)
OccIn(batches, p) ==
    IF batches = <<>> THEN 0
    ELSE Occ(Head(batches), p) + OccIn(Tail(batches), p)

\* C28: every packet appended so far is either in the buffer, once, or in
\* exactly one swapped-out batch, once, never both; it is in at most one
\* SaveNetworkPackets call; and the step that swaps a batch out leaves the
\* buffer empty.
C28_NeverRetained ==
    /\ [](\A p \in 1..(nextPkt - 1) :
            /\ Occ(networkBatch, p) + OccIn(SwappedBatches, p) = 1
            /\ OccIn([i \in 1..Len(pktCalls) |-> pktCalls[i].batch], p) <= 1)
    /\ [][ \A t \in Tasks :
            (Leaves(t, "nb_swap") /\ pc'[t] = "nb_save") =>
                /\ batch'[t] = networkBatch /\ networkBatch' = <<>>
                /\ pktCalls' = pktCalls ]_vars

\* The ticker has stored a batch, a connection holds a second one on its
\* way to storage, and packets appended since are in the buffer.
C28_Witness ==
    /\ Len(pktCalls) = 1 /\ pktCalls[1].by = Ticker
    /\ \E c \in Conns : pc[c] = "nb_save" /\ Len(batch[c]) >= BatchSize
    /\ networkBatch # <<>>

\* The packets of s are a run in the order of their arrival.
InInputOrder(s) == \A k \in 1..(Len(s) - 1) : s[k + 1] = s[k] + 1

\* C29: the step that takes in a metrics envelope puts its packets at the
\* end of the buffer, together and in the order of the envelope, and the
\* buffer and every batch swapped out of it list their packets in the
\* order in which they were appended.
C29_EnvelopeOrder ==
    /\ [](/\ InInputOrder(networkBatch)
          /\ \A i \in 1..Len(SwappedBatches) : InInputOrder(SwappedBatches[i]))
    /\ [][ nextPkt' # nextPkt =>
            networkBatch' =
               networkBatch \o [i \in 1..(nextPkt' - nextPkt) |-> nextPkt + i - 1]
          ]_vars

\* Connection 2 holds a batch of four packets from more than one envelope,
\* in the order of their arrival, while connection 1, whose envelope brought
\* the buffer to batch size, has not swapped yet.
C29_Witness ==
    /\ pc[1] = "nb_swap" /\ pc[2] = "nb_save"
    /\ batch[2] = <<1, 2, 3, 4>>

\* C30 as stated: a snapshot is diffed only once initializeFileCache has
\* returned, and the load writes the mirror only while no snapshot has been
\* handled.
C30_LoadedBeforeSnapshots ==
    [][ /\ \A c \in Conns :
             ( /\ pc[c] = "decode"
               /\ \/ snap'[c] # snap[c] \/ flResult'[c] # flResult[c]
                  \/ pc'[c] # pc[c] ) => initPc = "done"
        /\ (initPc = "load" /\ initPc' = "done") =>
             \A c \in Conns : flResult[c] = "none" ]_vars

\* Frame f is a view_file frame with a string payload.
IsViewString(f) == f.Type = "view_file" /\ f.Kind = "string"

\* C31 as stated: a control frame keeps the session reading and live; a
\* view_file frame with a string payload sets the file the session views to
\* that string; any other frame leaves the file every session views as it
\* was.
C31_OnlyViewFileString ==
    [][ \A s \in Sessions :
          msg'[s] # msg[s] =>
              /\ rp'[s] = "reading" /\ ws'[s] = ws[s]
              /\ IF IsViewString(msg'[s])
                 THEN ViewingFile(s)' = msg'[s].Text
                 ELSE \A u \in Sessions : ViewingFile(u)' = ViewingFile(u) ]_vars

\* C32 as stated: the limit of every GetLogs call on the storage is the
\* limit the request gave, 100 when it gave none, and never above 1000.
C32_LimitHonoured ==
    \A i \in 1..Len(getLogsCalls) :
       LET call == getLogsCalls[i]
       IN /\ call.limit <= MaxLimit
          /\ ~call.req.limit.given => call.limit = DefaultLimit
          /\ (call.req.limit.given /\ call.req.limit.n <= MaxLimit) =>
                 call.limit = call.req.limit.n

\* C33 as stated: no task sends on a fan-out channel that Close has closed.
C33_NoSendOnClosed == ~panicked

\* C34 as stated: a data frame a session is sent carries the item its
\* writer has just taken from the head of the channel of that type.
C34_FramesCarryItems ==
    [][ \A s \in Sessions :
          /\ sent'[s]["network"] # sent[s]["network"] =>
                /\ networkStreamCh # <<>>
                /\ sent'[s]["network"] =
                      sent[s]["network"] \cup {Head(networkStreamCh).v}
          /\ sent'[s]["log"] # sent[s]["log"] =>
                /\ logStreamCh # <<>>
                /\ sent'[s]["log"] = sent[s]["log"] \cup {Head(logStreamCh).v}
          /\ sent'[s]["file_update"] # sent[s]["file_update"] =>
                /\ fileUpdateCh # <<>>
                /\ sent'[s]["file_update"] =
                      sent[s]["file_update"] \cup {Head(fileUpdateCh).v} ]_vars

\* The mirror holds the paths of the snapshot s, each with a record that
\* agrees with the snapshot's on the fields the diff compares.
MirrorIs(s) ==
    /\ DOMAIN fileCache = DOMAIN s
    /\ \A p \in DOMAIN s : ~MaterialDiff(fileCache[p], s[p])

\* C35 as stated: once two connections that delivered snapshots
\* concurrently, with every storage call succeeding, have both finished,
\* the mirror is the last snapshot of one of them and equals the files
\* table.
C35_ConcurrentSnapshots ==
    (\A c \in Conns : Processed(c) /\ flResult[c] = "nil") =>
        /\ \E c \in Conns : MirrorIs(snap[c])
        /\ fileCache = dbFiles

\* C36: a storage step of a snapshot application never writes the mirror or
\* the file fan-out queue, and the step in which a storage call fails ends
\* the handler: the reader is back between two envelopes with no storage
\* step left to take, nothing pending for publication, and the storage, the
\* mirror and the queue as that step found them.
C36_FailureSkipsTheRest ==
    [][ \A c \in Conns :
          /\ (FileStep(pc[c]) \in 1..3 /\ pc'[c] # pc[c]) =>
                 /\ fileCache' = fileCache
                 /\ fileUpdateCh' = fileUpdateCh
                 /\ pending'[c] = <<>>
          /\ (InFileList(c) /\ flResult'[c] = "error") =>
                 /\ FileStep(pc[c]) \in 1..3
                 /\ pc'[c] \in {"decode", "closing"}
                 /\ changes'[c] = NoChanges /\ pending'[c] = <<>>
                 /\ dbFiles' = dbFiles
                 /\ fileCache' = fileCache
                 /\ fileUpdateCh' = fileUpdateCh ]_vars

\* The deletion of a snapshot was stored and a later storage step failed:
\* the handler has returned an error, the mirror still holds /a and /b as
\* loaded, the files table has lost /a, and nothing was published.
C36_Witness ==
    /\ pc[1] = "decode" /\ flResult[1] = "error"
    /\ fileCache = [p \in {"/a", "/b"} |-> BaseNode(p)]
    /\ "/a" \notin DOMAIN dbFiles
    /\ fileUpdateCh = <<>> /\ pending[1] = <<>>
    /\ DOMAIN snap[1] = {"/b", "/c"}

\* C37: a connection whose handling goroutine has exited, and has thereby
\* untracked it, has its socket closed.
C37_ClosedWhenExited ==
    \A c \in Conns : pc[c] = "exited" => ~connOpen[c] /\ c \notin connections

\* C38: the wait-group counter is the size of the active-connection set and
\* is not negative; a step that puts a connection in the set counts up by
\* one, a step that takes one out counts down by one, and a step that leaves
\* the set as it is (untracking a connection that is not in it) leaves the
\* counter as it is.
C38_CounterIsSetSize ==
    /\ [](activeConns = Cardinality(connections) /\ activeConns >= 0)
    /\ [][ /\ activeConns' - activeConns
               = Cardinality(connections') - Cardinality(connections)
           /\ connections' = connections => activeConns' = activeConns ]_vars

\* One connection is tracked and counted while the other has exited and is
\* untracked, so that untracking it again finds it absent.
C38_Witness ==
    /\ pc[1] = "exited" /\ 1 \notin connections
    /\ 2 \in connections /\ pc[2] = "decode"
    /\ activeConns = 1

\* processMessage returns an error on connection c in this step: it rejects
\* the envelope, or the storage call of the handler it ran fails.
ErrorReturn(c) ==
    \/ rejected'[c] # rejected[c]
    \/ flResult[c] # "error" /\ flResult'[c] = "error"
    \/ /\ pc[c] = "decode" /\ Len(logCalls') > Len(logCalls)
       /\ ~logCalls'[Len(logCalls')].ok
    \/ /\ Len(pktCalls') > Len(pktCalls)
       /\ ~pktCalls'[Len(pktCalls')].ok /\ pktCalls'[Len(pktCalls')].by = c

\* C39: a step in which processMessage returns an error leaves the socket
\* of the connection and the set of tracked connections as they are and
\* puts the reader back at its select: it decodes the next envelope unless
\* the context is cancelled or the handler is shut down.
C39_ErrorKeepsReader ==
    [][ \A c \in Conns :
          ErrorReturn(c) =>
             /\ connOpen' = connOpen
             /\ connections' = connections /\ activeConns' = activeConns
             /\ pc'[c] = IF ctxDone \/ hShutdownCh THEN "closing" ELSE "decode" ]_vars

\* Connection 1 has had an envelope rejected, a snapshot, a log call and a
\* packet batch fail in storage, and its reader is decoding on an open,
\* tracked connection.
C39_Witness ==
    /\ rejected[1] = "unknown type" /\ flResult[1] = "error"
    /\ \E i \in DOMAIN logCalls : ~logCalls[i].ok
    /\ \E i \in DOMAIN pktCalls : ~pktCalls[i].ok /\ pktCalls[i].by = 1
    /\ pc[1] = "decode" /\ connOpen[1] /\ 1 \in connections
    /\ ~ctxDone

====
